---- MODULE Spec2Model ----
(***************************************************************************)
(* Generation orchestration of the Google Maps 3D drawing generator.       *)
(*                                                                         *)
(* The repository holds two versions of the App component:                 *)
(*  - "AppSeq":   handleGenerate / generateImageWithNanoBanana, which      *)
(*                awaits each of the three generations in a for loop;      *)
(*  - "AppTimer": generateImage / regenerateAllImages, which starts the    *)
(*                three generations from setTimeout callbacks.             *)
(* A page runs one of them; `app` records which.                           *)
(*                                                                         *)
(* Strings that the code builds by interpolation are sequences of tokens,  *)
(* so that "the message contains X" is a membership test.                  *)
(***************************************************************************)
EXTENDS Integers, Sequences, FiniteSets, TLC

\* --------------------------------------------------------------- bounds
\* number of clicks on the timer-driven App's buttons ("regenerate all three"
\* and the per-type buttons) that the model follows
MaxClicks == 1
\* number of upstream answers other than a base64-only image that the model
\* follows
MaxAnomalies == 1
\* number of invocations of generateProceduralMapImage that the model follows
MaxCaptures == 2
\* wrappers installed over the native fetch
MaxWrappers == 2
\* nested calls the JavaScript engine allows before it throws a RangeError
MaxStack == 4
\* addLog calls of the Deep Debug System that the model follows
MaxLogCalls == 2
\* calls of loadAISdkPackages
MaxCalls == 3

\* ------------------------------------------------------------ JS values
Null      == [tag |-> "null",      val |-> <<>>]
Undefined == [tag |-> "undefined", val |-> <<>>]
Str(s)    == [tag |-> "string",    val |-> s]
EmptyStr  == Str(<<>>)
\* JavaScript truthiness of a string-or-nullish value
Truthy(v) == v.tag = "string" /\ v.val # <<>>

Contains(msg, tok) == \E i \in 1..Len(msg) : msg[i] = tok

\* ---------------------------------------------------------- image types
AppSeq   == "AppSeq"
AppTimer == "AppTimer"

\* steps of handleGenerate, in loop order
steps == << [key |-> "cad",      name |-> "isometric"],
            [key |-> "hologram", name |-> "hologram"],
            [key |-> "lineArt",  name |-> "lineArt"] >>
SeqTypes   == {steps[i].key : i \in 1..Len(steps)}
\* the three entries of imageResults, in display order
TimerOrder == <<"isometric", "hologram", "line_drawing">>
TimerTypes == {TimerOrder[i] : i \in 1..Len(TimerOrder)}
AllTypes   == SeqTypes \cup TimerTypes
TypesOf(a) == IF a = AppSeq THEN SeqTypes ELSE TimerTypes

\* ------------------------------------------------------------ locations
\* lat and lng are the coordinates as they print; lat6 and lng6 are
\* Math.floor(lat * 1000000) and Math.floor(lng * 1000000)
Location(lat, lng, address, lat6, lng6) ==
  [lat |-> lat, lng |-> lng, address |-> address, lat6 |-> lat6, lng6 |-> lng6]
defaultLocation == Location("40.6892", "-74.0445",
                            "Statue of Liberty, New York, NY, USA", 40689200, -74044500)
tokyoStation    == Location("35.6812", "139.6712", "Tokyo Station", 35681200, 139671200)
Locations == {defaultLocation, tokyoStation}
NoLocation == Location("", "", "", 0, 0)

\* the fixed place of the timer-driven App
selectedPlace == [name |-> "Tokyo Station (JP)",
                  address |-> "1 Chome Marunouchi, Chiyoda City, Tokyo",
                  lat |-> "35.6812362", lng |-> "139.7671248"]

\* ------------------------------------------------- prompt templates
\* A template is a sequence of parts: literal text or a ${name} placeholder.
Lit(s) == [lit |-> TRUE,  s |-> s]
Var(n) == [lit |-> FALSE, s |-> n]

\* Variable bags are functions from every variable name to a token sequence;
\* <<>> stands for a name the caller did not supply.
VarNames == {"locationContext", "buildingType", "scale", "address", "dimensions"}
NoVars == [n \in VarNames |-> <<>>]

\* processTemplateStrings: obj.replace(/\$\{(\w+)\}/g, (m, key) => variables[key] || m)
RECURSIVE RenderReplace(_, _)
RenderReplace(parts, vars) ==
  IF parts = <<>> THEN <<>>
  ELSE LET p == Head(parts)
           out == IF p.lit THEN <<p.s>>
                  ELSE IF vars[p.s] # <<>> THEN vars[p.s]
                  ELSE <<"${", p.s, "}">>
       IN out \o RenderReplace(Tail(parts), vars)

\* a JavaScript template literal: every ${expr} is replaced by String(expr)
RECURSIVE RenderLiteral(_, _)
RenderLiteral(parts, vars) ==
  IF parts = <<>> THEN <<>>
  ELSE LET p == Head(parts)
           out == IF p.lit THEN <<p.s>>
                  ELSE IF vars[p.s] # <<>> THEN vars[p.s]
                  ELSE <<"undefined">>
       IN out \o RenderLiteral(Tail(parts), vars)

\* --------------------------------------------------- generator configs
\* prompt_template is "function" (a converted ${...} string or a closure),
\* "string" (a manifest string without placeholder, left unconverted) or
\* "undefined"; `literal` tells a closure over a template literal from a
\* converted manifest string.
NoConfig == [model |-> "", response_format |-> "", size |-> "",
             prompt_template |-> "undefined", parts |-> <<>>, literal |-> FALSE,
             present |-> FALSE]

Key(scene) == <<scene, "_generator">>
Scenes == {"cad", "isometric", "hologram", "lineArt", "line_art", "line_drawing"}
Keys == {Key(s) : s \in Scenes}

ManifestEntry(scene) ==
  [model |-> "nano-banana", response_format |-> "b64_json", size |-> "1024x1024",
   prompt_template |-> "function",
   parts |-> <<Lit("Manifest prompt"), Lit(scene), Var("locationContext"),
               Var("buildingType"), Var("address")>>,
   literal |-> FALSE, present |-> TRUE]

\* an entry whose prompt_template has no ${...}: it stays a plain string
StringEntry(scene) ==
  [ManifestEntry(scene) EXCEPT !.prompt_template = "string",
                               !.parts = <<Lit("Plain prompt"), Lit(scene)>>]

AiConfigOf(present) == [k \in Keys |-> IF \E s \in present : k = Key(s)
                                        THEN ManifestEntry(k[1]) ELSE NoConfig]

\* globalThis.ywConfig: undefined, or an object with ai_config
NoYwConfig == [defined |-> FALSE, ai_config |-> AiConfigOf({})]
YwConfig(present) == [defined |-> TRUE, ai_config |-> AiConfigOf(present)]

\* the manifests the model starts from
Manifests ==
  { NoYwConfig,
    \* the scenes logged in bad.md, and the keys handleGenerate asks for
    YwConfig({"isometric", "hologram", "line_art", "cad", "lineArt"}),
    [YwConfig({"isometric", "hologram", "line_drawing"})
       EXCEPT !.ai_config[Key("hologram")] = StringEntry("hologram")] }

\* globalThis.ywConfig?.ai_config?.[key]
Lookup(ywc, key) == IF ywc.defined THEN ywc.ai_config[key] ELSE NoConfig


\* manualConfigs of generateImage: used when ywConfig has no entry
ManualEntry(style) ==
  [model |-> "nano-banana", response_format |-> "b64_json", size |-> "1024x1024",
   prompt_template |-> "function",
   parts |-> <<Lit(style), Var("buildingType"), Lit("based on"), Var("scale"),
               Lit("focus on"), Var("address"), Lit("Dimensions:"), Var("dimensions")>>,
   literal |-> TRUE, present |-> TRUE]

manualConfigs ==
  [k \in Keys |->
     IF k = Key("isometric") THEN ManualEntry("Create a precise 3D isometric architectural drawing of")
     ELSE IF k = Key("hologram") THEN ManualEntry("Create a futuristic holographic projection of")
     ELSE IF k = Key("line_drawing") THEN ManualEntry("Create a precise black and white line drawing of")
     ELSE NoConfig]

\* mutant: the manual table is never consulted
ResolveConfigTimerManifestOnly(ywc, type) == Lookup(ywc, Key(type))

\* generateImage, lines 116-147: the manifest entry, else the manual table
ResolveConfigTimer(ywc, type) ==
  LET config == Lookup(ywc, Key(type))
  IN IF config.present THEN config ELSE manualConfigs[Key(type)]

\* generateImageWithNanoBanana, line 310: `${imageType}_generator`, else the
\* key with cad renamed to isometric
ResolveConfigSeq(ywc, imageType) ==
  LET primary == Lookup(ywc, Key(imageType))
      alias   == Lookup(ywc, Key(IF imageType = "cad" THEN "isometric" ELSE imageType))
  IN IF primary.present THEN primary ELSE alias

\* calling config.prompt_template(vars) when it is a function
CallTemplate(config, vars) ==
  IF config.literal THEN RenderLiteral(config.parts, vars)
  ELSE RenderReplace(config.parts, vars)

NotAFunction == <<"config.prompt_template is not a function">>

LocationContext(loc) ==
  <<"Location: ", loc.address, ", Coordinates: ", loc.lat, ", ", loc.lng,
    ". Generate architectural 3D visualization from this Google Maps area focusing on building structures.">>

\* What a generation call does before it awaits the network:
\*   ok = TRUE  : the POST is issued with `prompt`
\*   ok = FALSE : the call throws `msg` and no request is issued
Started(prompt) == [ok |-> TRUE,  prompt |-> prompt, msg |-> <<>>]
Threw(msg)      == [ok |-> FALSE, prompt |-> <<>>,   msg |-> msg]

\* mutant: a missing configuration falls through to the default prompt
StartSeqWithoutConfigCheck(ywc, imageType, loc) ==
  LET config == ResolveConfigSeq(ywc, imageType)
      vars   == [NoVars EXCEPT !["locationContext"] = LocationContext(loc)]
  IN IF ~config.present \/ config.prompt_template = "undefined"
       THEN Started(<<"Generate ", imageType, " image for: ">> \o LocationContext(loc))
     ELSE IF config.prompt_template = "function"
       THEN Started(CallTemplate(config, vars))
     ELSE Threw(NotAFunction)

\* generateImageWithNanoBanana, lines 310-354
StartSeq(ywc, imageType, loc) ==
  LET config == ResolveConfigSeq(ywc, imageType)
      vars   == [NoVars EXCEPT !["locationContext"] = LocationContext(loc)]
  IN IF ~config.present
       THEN Threw(<<"API Error - ", imageType, " generator configuration not found">>)
     ELSE IF config.prompt_template = "undefined"
       THEN Started(<<"Generate ", imageType, " image for: ">> \o LocationContext(loc))
     ELSE IF config.prompt_template = "function"
       THEN Started(CallTemplate(config, vars))
     ELSE Threw(NotAFunction)

\* generateImage, lines 114-179
StartTimer(ywc, type) ==
  LET config == ResolveConfigTimer(ywc, type)
      vars   == [NoVars EXCEPT
                   !["buildingType"] = <<"historical railway station building">>,
                   !["address"]      = <<selectedPlace.address>>,
                   !["scale"]        = <<"Google Maps satellite view scale">>,
                   !["dimensions"]   = <<"Building location: ", selectedPlace.lat, ", ", selectedPlace.lng>>]
  IN IF ~config.present
       THEN Threw(<<"AI config not found: ", type, "_generator">>)
     ELSE IF config.prompt_template = "function"
       THEN Started(CallTemplate(config, vars))
     ELSE Threw(NotAFunction)

\* ------------------------------------------------------------ responses
Item(b64, url) == [b64_json |-> b64, url |-> url]
InvalidCredentials == "Invalid credentials"
UpstreamDown       == "upstream temporarily unavailable"

\* rejected: fetch rejects; json: the body parses as JSON; message: the
\* upstream's error text (error.message of a JSON body, or the raw body)
Response(rejected, status, statusText, json, data, message) ==
  [rejected |-> rejected, status |-> status, statusText |-> statusText,
   json |-> json, data |-> data, message |-> message]

RespB64     == Response(FALSE, "200", "OK", TRUE, <<Item(Str(<<"iVBORw0">>), Undefined)>>, "")
RespUrl     == Response(FALSE, "200", "OK", TRUE, <<Item(Undefined, Str(<<"https://cdn.example/img.png">>))>>, "")
RespBoth    == Response(FALSE, "200", "OK", TRUE, <<Item(Str(<<"R0lGODlh">>), Str(<<"https://cdn.example/img.png">>))>>, "")
RespNeither == Response(FALSE, "200", "OK", TRUE, <<Item(Undefined, Undefined)>>, "")
RespNoData  == Response(FALSE, "200", "OK", TRUE, <<>>, "")
Resp401     == Response(FALSE, "401", "Unauthorized", TRUE, <<>>, InvalidCredentials)
Resp500Text == Response(FALSE, "500", "Internal Server Error", FALSE, <<>>, UpstreamDown)
RespReject  == Response(TRUE, "", "", FALSE, <<>>, "")

Responses == {RespB64, RespUrl, RespBoth, RespNeither, RespNoData,
              Resp401, Resp500Text, RespReject}

IsOk(resp) == ~resp.rejected /\ resp.status = "200"
\* a non-2xx response that carries an upstream error message
HasUpstreamMessage(resp) == ~resp.rejected /\ ~IsOk(resp) /\ resp.message # ""

DataUri(b64) == Str(<<"data:image/png;base64,">> \o b64.val)

\* mutant: the hosted url is preferred when both fields are present
ImageUrlOfPreferUrl(imageData) ==
  IF Truthy(imageData.url) THEN imageData.url ELSE DataUri(imageData.b64_json)

\* imageData.b64_json ? `data:image/png;base64,${...}` : imageData.url
ImageUrlOf(imageData) ==
  IF Truthy(imageData.b64_json) THEN DataUri(imageData.b64_json) ELSE imageData.url

Resolved(url) == [ok |-> TRUE,  url |-> url,  msg |-> <<>>]
Rejected(msg) == [ok |-> FALSE, url |-> Null, msg |-> msg]

FailedToFetch  == <<"Failed to fetch">>
JsonSyntaxError == <<"Unexpected token in JSON">>
InvalidFormatSeq   == "API Error - Invalid response format - no image data received"
\* the thrown text is Japanese for "invalid response format"
InvalidFormatTimer == "invalid response format"
ReadLengthOfUndefined == <<"Cannot read properties of undefined (reading 'length')">>

\* generateImageWithNanoBanana, lines 334-427 (the part after the fetch settles)
ProcessResponseSeq(resp) ==
  LET inner ==
        IF resp.rejected THEN Rejected(FailedToFetch)
        ELSE IF ~IsOk(resp) THEN
          IF resp.status = "401"
            THEN Rejected(<<"API Error - Authentication failed: ", resp.status,
                            ". YouWare MCP AI SDK tool may not be properly enabled.">>)
            ELSE Rejected(<<"API Error - Image generation request failed: ",
                            resp.status, " ", resp.statusText>>)
        ELSE IF ~resp.json THEN Rejected(JsonSyntaxError)
        ELSE IF Len(resp.data) > 0 THEN
          LET finalImageUrl == ImageUrlOf(resp.data[1])
          IN  \* line 405 reads finalImageUrl.length
              IF finalImageUrl.tag = "string" THEN Resolved(finalImageUrl)
              ELSE Rejected(ReadLengthOfUndefined)
        ELSE Rejected(<<InvalidFormatSeq>>)
  IN IF inner.ok THEN inner
     ELSE Rejected(<<"API Error - Image generation failed: ">> \o inner.msg)

\* generateImage, lines 181-207 (the part after callYouWareAPI settles)
ProcessResponseTimer(resp) ==
  IF resp.rejected THEN Rejected(FailedToFetch)
  ELSE IF ~IsOk(resp)
    THEN Rejected(<<"image generation request failed: ",
                    resp.status, " ", resp.statusText>>)
  ELSE IF ~resp.json THEN Rejected(JsonSyntaxError)
  ELSE IF Len(resp.data) > 0 THEN Resolved(ImageUrlOf(resp.data[1]))
  ELSE Rejected(<<InvalidFormatTimer>>)


\* ================================================================ state
VARIABLES
  app,               \* which App component the page runs
  ywConfig,          \* globalThis.ywConfig, populated before the App renders
  \* ---- AppSeq (handleGenerate)
  selectedLocation,  \* useState selectedLocation
  mapZoom,           \* useState mapZoom
  mapImage,          \* useState mapImage
  generatedImages,   \* useState generatedImages: cad, hologram, lineArt
  isCapturing,       \* useMapCapture's isCapturing
  isGenerating,      \* useState isGenerating
  currentStep,       \* useState currentStep ("null" when null)
  runLocation,       \* selectedLocation as captured by the running handleGenerate
  consoleError,      \* the error last logged by handleGenerate's inner catch
  \* ---- AppTimer (generateImage)
  imageResults,      \* useState imageResults: url and isGenerating per type
  timers,            \* pending setTimeout callbacks, in creation order
  mount,             \* progress of the mount effect
  regenerations,     \* clicks on "regenerate all" so far
  clicks,            \* clicks on any of the generate buttons so far
  alertOpen,         \* text of the alert() being shown, <<>> when none
  \* ---- network
  inflight,          \* per type: POSTs issued and not yet settled
  anomalies,         \* upstream answers so far other than a base64-only image
  calls,             \* per run: the generation calls made, in order
  \* ---- functions exercised on their own
  procedural,        \* the images generateProceduralMapImage returned, in call order
  rendered,          \* the last call of a processed manifest string
  net,               \* window.fetch, the NetworkMonitor instance and the last fetch of the page
  probe,             \* the diagnostic probe last run and what its promise settled to
  debugPanel,        \* DebugPanel: its useState values, localStorage debugMode and the URL
  mapSearch,         \* MapSearch: its input, debounce timer, suggestion list and lookups in flight
  debugStore,        \* useDebugStore: its logs, and whether console interception is installed
  startup,           \* the page start-up: manifest, Maps libraries, what #root shows
  imagePanel,        \* one GenerationPanel: props, flags, img element, timers
  sdk                \* aiSdkLoader: cache, loadingPromise, loads, calls, microtasks

appVars == <<app, ywConfig, selectedLocation, mapZoom, mapImage, generatedImages,
             isCapturing, isGenerating, currentStep, runLocation, consoleError,
             imageResults, timers, mount, regenerations, clicks, alertOpen,
             inflight, anomalies, calls>>
pureVars == <<procedural, rendered, net, probe, debugPanel, mapSearch, debugStore, startup, imagePanel, sdk>>
vars == <<appVars, pureVars>>

\* everything but the one variable a function exercised on its own writes
exceptProcedural == <<appVars, rendered, net, probe, debugPanel, mapSearch, debugStore, startup, imagePanel, sdk>>
exceptRendered == <<appVars, procedural, net, probe, debugPanel, mapSearch, debugStore, startup, imagePanel, sdk>>
exceptNet == <<appVars, procedural, rendered, probe, debugPanel, mapSearch, debugStore, startup, imagePanel, sdk>>
exceptProbe == <<appVars, procedural, rendered, net, debugPanel, mapSearch, debugStore, startup, imagePanel, sdk>>
exceptDebugPanel == <<appVars, procedural, rendered, net, probe, mapSearch, debugStore, startup, imagePanel, sdk>>
exceptMapSearch == <<appVars, procedural, rendered, net, probe, debugPanel, debugStore, startup, imagePanel, sdk>>
exceptDebugStore == <<appVars, procedural, rendered, net, probe, debugPanel, mapSearch, startup, imagePanel, sdk>>
exceptStartup == <<appVars, procedural, rendered, net, probe, debugPanel, mapSearch, debugStore, imagePanel, sdk>>
exceptImagePanel == <<appVars, procedural, rendered, net, probe, debugPanel, mapSearch, debugStore, startup, sdk>>
exceptSdk == <<appVars, procedural, rendered, net, probe, debugPanel, mapSearch, debugStore, startup, imagePanel>>

seqVars   == <<selectedLocation, mapZoom, mapImage, generatedImages, isCapturing,
               isGenerating, currentStep, runLocation, consoleError>>
timerVars == <<imageResults, timers, mount, regenerations, clicks, alertOpen>>

\* runs: 0 is handleGenerate's current run or the mount effect's automatic
\* run; k > 0 is the k-th click on "regenerate all"
Runs == 0..MaxClicks
\* no processed template has been called yet
NotRendered == [parts |-> <<>>, kind |-> "none", bag |-> <<>>, out |-> <<>>]
Call(type, started) == [type |-> type, sent |-> started.ok, prompt |-> started.prompt]


\* the upstream's answer to a POST, within the anomaly bound
Plain(resp) ==
  /\ IsOk(resp) /\ resp.json /\ Len(resp.data) > 0
  /\ Truthy(resp.data[1].b64_json) /\ resp.data[1].url = Undefined
Upstream(resp) ==
  /\ ~Plain(resp) => anomalies < MaxAnomalies
  /\ anomalies' = IF Plain(resp) THEN anomalies ELSE anomalies + 1

\* ------------------------------------------------------- map capture
\* The generator of generateProceduralMapImage:
\*   prngState = (prngState * 16807) % 2147483647; return prngState / 2147483647
\* The code computes in doubles, which are exact here (products stay below
\* 2^46).  The operators below compute the same values without leaving the
\* 32-bit range.
PrngModulus    == 2147483647
PrngMultiplier == 16807

\* (state * 16807) % 2147483647, by Schrage's decomposition of the modulus
prng(state) ==
  LET q == PrngModulus \div PrngMultiplier
      r == PrngModulus % PrngMultiplier
      t == PrngMultiplier * (state % q) - r * (state \div q)
  IN IF t < 0 THEN t + PrngModulus ELSE t

\* Math.floor((state / 2147483647) * n) for 0 <= state < 2147483647: the
\* quotient of n * state by the modulus.  With modulus = n * q + r and
\* state = q * k + j, n * state = modulus * k + (n * j - r * k), and the
\* last term lies strictly between -modulus and modulus.
FloorOf(n, state) ==
  LET q == PrngModulus \div n
      r == PrngModulus % n
      k == state \div q
      d == n * (state % q) - r * k
  IN IF d < 0 THEN k - 1 ELSE k

Abs(n) == IF n < 0 THEN 0 - n ELSE n

\* Math.abs(Math.floor(lat * 1000000) + Math.floor(lng * 1000000))
SeedOf(location) == Abs(location.lat6 + location.lng6)

\* mutant: one feature more at the top of the range
FeatureCountUpTo13(state) == FloorOf(9, state) + 5

\* Math.floor(prng() * 8) + 5, from the state of that first draw
FeatureCount(state) == FloorOf(8, state) + 5

\* One iteration of the feature loop from generator state `state`: the draws
\* are kept as generator states (the value drawn is state / 2147483647).
Feature(state) ==
  LET x == prng(state)
      y == prng(x)
      size == prng(y)
      featureType == prng(size)
      a == prng(featureType)
      b == prng(a)
      tenths == FloorOf(10, featureType)
  IN IF tenths < 3        \* featureType < 0.3: a road, two more draws
       THEN [shape |-> [kind |-> "road", draws |-> <<x, y, size, featureType, a, b>>],
             state |-> b]
     ELSE IF tenths < 6   \* featureType < 0.6: a building, two more draws
       THEN [shape |-> [kind |-> "building",
                        draws |-> <<x, y, size, featureType,
                                    FloorOf(60, a) + 200, FloorOf(30, b) + 40>>],
             state |-> b]
     ELSE [shape |-> [kind |-> IF tenths < 8 THEN "tree" ELSE "water",
                      draws |-> <<x, y, size, featureType>>],
           state |-> featureType]

\* for (let i = 0; i < features; i++) { ... }
RECURSIVE Features(_, _, _, _)
Features(i, features, state, shapes) ==
  IF i >= features THEN shapes
  ELSE LET f == Feature(state)
       IN Features(i + 1, features, f.state, Append(shapes, f.shape))

\* canvas.toDataURL('image/png') of a canvas holding `content`
ToDataURL(content) == [tag |-> "string", val |-> <<"data:", "image/png", ";base64,">>,
                       canvas |-> content]

\* mutant: prngState outlives the call, so a later call starts from a state
\* that depends on the calls before it
generateProceduralMapImageSharedState(location) ==
  LET seed == SeedOf(location) + Len(procedural)
      first == prng(seed)
      features == FeatureCount(first)
  IN ToDataURL([seed |-> seed, features |-> features,
                shapes |-> Features(0, features, first, <<>>),
                text |-> <<location.lat, location.lng, location.address>>])

\* generateProceduralMapImage: the canvas 2D context is taken to be
\* available, as the code asserts with getContext('2d')!
generateProceduralMapImage(location) ==
  LET seed == SeedOf(location)
      first == prng(seed)
      features == FeatureCount(first)
  IN ToDataURL([seed |-> seed, features |-> features,
                shapes |-> Features(0, features, first, <<>>),
                text |-> <<location.lat, location.lng, location.address>>])

\* what the static-map request did: response.ok, a non-OK status, fetch
\* rejecting, response.blob() rejecting, the FileReader failing
StaticMapOutcomes == {"ok", "not ok", "network error", "blob error", "reader error"}

\* FileReader.readAsDataURL of the static map's blob
StaticMapImage(location) ==
  [tag |-> "string", val |-> <<"data:", "image/png", ";base64,">>,
   canvas |-> [seed |-> 0, features |-> 0, shapes |-> <<>>,
               text |-> <<"staticmap", location.lat, location.lng>>]]

\* mutant: no procedural fallback, the failure comes out as no image
captureMapAreaWithoutFallback(location, outcome) ==
  IF outcome = "ok" THEN StaticMapImage(location) ELSE Null

\* captureMapArea: the value its promise resolves to.  Every failure of the
\* static-map path is thrown inside the inner try and lands in the inner
\* catch, which returns the procedural image; the outer catch (the labeled
\* placeholder) is reached only if that throws.
captureMapArea(location, outcome) ==
  IF outcome = "ok" THEN StaticMapImage(location)
  ELSE generateProceduralMapImage(location)

\* ===================================================== AppSeq operations
\* the keywords of determineZoomLevel that occur in the lower-cased address
AddressKeywords(address) ==
  IF address = defaultLocation.address THEN {"statue"} ELSE {}
landmarks == {"tower", "statue", "bridge", "palace", "temple", "cathedral", "monument"}
detailedBuildings == {"room", "floor", "apartment", "suite", "unit"}

determineZoomLevel(address) ==
  IF AddressKeywords(address) \cap landmarks # {} THEN 17
  ELSE IF AddressKeywords(address) \cap detailedBuildings # {} THEN 20
  ELSE 18

\* handleLocationSelect: MapSearch and PresetButtons are never disabled
handleLocationSelect(location) ==
  /\ app = AppSeq
  /\ selectedLocation' = location
  /\ mapZoom' = determineZoomLevel(location.address)
  /\ mapImage' = Null
  /\ generatedImages' = [t \in SeqTypes |-> Null]
  /\ UNCHANGED <<app, ywConfig, anomalies, isCapturing, isGenerating, currentStep, runLocation,
                 consoleError, inflight, calls>>
  /\ UNCHANGED timerVars
  /\ UNCHANGED pureVars

\* handleGenerate up to its first await: the button is disabled while
\* !selectedLocation || isCapturing || isGenerating
handleGenerate ==
  /\ app = AppSeq
  /\ selectedLocation # NoLocation
  /\ ~isCapturing
  /\ ~isGenerating
  /\ isGenerating' = TRUE
  /\ isCapturing' = TRUE               \* captureMapArea: setIsCapturing(true)
  /\ runLocation' = selectedLocation
  /\ calls' = [calls EXCEPT ![0] = <<>>]
  /\ UNCHANGED <<app, ywConfig, anomalies, selectedLocation, mapZoom, mapImage, generatedImages,
                 currentStep, consoleError, inflight>>
  /\ UNCHANGED timerVars
  /\ UNCHANGED pureVars

\* mutant: a step that throws before its fetch ends the loop
RunFromAbort(i, images, log, err, ywc, loc) ==
  IF i > Len(steps)
    THEN [images |-> images, log |-> log, err |-> err, waiting |-> 0]
  ELSE LET key == steps[i].key
           st  == StartSeq(ywc, key, loc)
       IN IF st.ok
            THEN [images |-> images, log |-> Append(log, Call(key, st)),
                  err |-> err, waiting |-> i]
            ELSE [images |-> [images EXCEPT ![key] = Null],
                  log |-> Append(log, Call(key, st)), err |-> st.msg, waiting |-> 0]

\* The for loop of handleGenerate from step i on, up to the next await that
\* suspends on the network: a step whose call throws before the fetch is
\* caught, its slot set to null, and the loop goes on to the next step.
\*   waiting = the index of the step now awaiting its response, 0 when the
\*   loop has finished.
RECURSIVE RunFrom(_, _, _, _, _, _)
RunFrom(i, images, log, err, ywc, loc) ==
  IF i > Len(steps)
    THEN [images |-> images, log |-> log, err |-> err, waiting |-> 0]
  ELSE LET key == steps[i].key
           st  == StartSeq(ywc, key, loc)
       IN IF st.ok
            THEN [images |-> images, log |-> Append(log, Call(key, st)),
                  err |-> err, waiting |-> i]
            ELSE RunFrom(i + 1, [images EXCEPT ![key] = Null],
                         Append(log, Call(key, st)), st.msg, ywc, loc)

\* mutant: the flags are reset only when no step has failed
ContinueWithoutFinally(r) ==
  /\ generatedImages' = r.images
  /\ calls' = [calls EXCEPT ![0] = r.log]
  /\ consoleError' = r.err
  /\ IF r.waiting = 0
       THEN /\ isGenerating' = (r.err # <<>>)
            /\ currentStep' = IF r.err # <<>> THEN currentStep ELSE "null"
            /\ inflight' = [t \in AllTypes |-> 0]
       ELSE /\ isGenerating' = isGenerating
            /\ currentStep' = steps[r.waiting].key
            /\ inflight' = [t \in AllTypes |-> IF t = steps[r.waiting].key THEN 1 ELSE 0]

\* the state after the loop has run to `r`
Continue(r) ==
  /\ generatedImages' = r.images
  /\ calls' = [calls EXCEPT ![0] = r.log]
  /\ consoleError' = r.err
  /\ IF r.waiting = 0
       THEN /\ isGenerating' = FALSE     \* finally
            /\ currentStep' = "null"
            /\ inflight' = [t \in AllTypes |-> 0]
       ELSE /\ isGenerating' = isGenerating
            /\ currentStep' = steps[r.waiting].key
            /\ inflight' = [t \in AllTypes |-> IF t = steps[r.waiting].key THEN 1 ELSE 0]

\* captureMapArea settles (static map or the procedural fallback), and
\* handleGenerate runs on into its loop
captureSettles(outcome) ==
  /\ app = AppSeq
  /\ isCapturing
  /\ isCapturing' = FALSE
  /\ mapImage' = captureMapArea(runLocation, outcome)
  /\ Continue(RunFrom(1, generatedImages, calls[0], consoleError, ywConfig, runLocation))
  /\ UNCHANGED <<app, ywConfig, anomalies, selectedLocation, mapZoom, runLocation>>
  /\ UNCHANGED timerVars
  /\ UNCHANGED pureVars

StepIndex(key) == CHOOSE i \in 1..Len(steps) : steps[i].key = key

\* the awaited generation settles with `resp` (a response, or the fetch
\* rejecting) and handleGenerate runs on
settleSeq(resp) ==
  /\ app = AppSeq
  /\ currentStep # "null"
  /\ inflight[currentStep] > 0
  /\ LET key == currentStep
         res == ProcessResponseSeq(resp)
         images1 == [generatedImages EXCEPT ![key] = IF res.ok THEN res.url ELSE Null]
         err1 == IF res.ok THEN consoleError ELSE res.msg
     IN Continue(RunFrom(StepIndex(key) + 1, images1, calls[0], err1, ywConfig, runLocation))
  /\ Upstream(resp)
  /\ UNCHANGED <<app, ywConfig, selectedLocation, mapZoom, mapImage, isCapturing, runLocation>>
  /\ UNCHANGED timerVars
  /\ UNCHANGED pureVars


\* =================================================== AppTimer operations
\* alert(`${type}...: ${error.message}`); the fixed text is Japanese for
\* "an error occurred while generating the image"
AlertText(type, msg) == <<type, " image generation error: ">> \o msg

\* no modal alert blocks the page
TimerAppReady ==
  /\ app = AppTimer
  /\ alertOpen = <<>>

\* generateImage(type) up to its await: sets isGenerating, resolves the
\* config, renders the prompt and issues the POST; a throw before the POST
\* is caught, resets isGenerating and alerts.  run < 0: not part of a run.
generateImage(type, run) ==
  LET st == StartTimer(ywConfig, type)
  IN /\ imageResults' = [imageResults EXCEPT ![type].isGenerating = st.ok]
     /\ inflight' = IF st.ok THEN [inflight EXCEPT ![type] = @ + 1] ELSE inflight
     /\ alertOpen' = IF st.ok THEN <<>> ELSE AlertText(type, st.msg)
     /\ calls' = IF run >= 0 THEN [calls EXCEPT ![run] = Append(@, Call(type, st))]
                 ELSE calls

Timer(type, delay, run) == [type |-> type, remaining |-> delay, run |-> run]

\* mutant: the delays of the first two timers are exchanged
mapsLoadedSwapped ==
  /\ TimerAppReady
  /\ mount = "loading"
  /\ mount' = "done"
  /\ timers' = timers \o <<Timer("isometric", 2, 0), Timer("hologram", 1, 0),
                           Timer("line_drawing", 3, 0)>>
  /\ UNCHANGED <<app, ywConfig, anomalies, imageResults, regenerations, clicks, alertOpen,
                 inflight, calls>>
  /\ UNCHANGED seqVars
  /\ UNCHANGED pureVars

\* the mount effect after the Maps script has loaded:
\* setTimeout(..., 1000), setTimeout(..., 2000), setTimeout(..., 3000)
mapsLoaded ==
  /\ TimerAppReady
  /\ mount = "loading"
  /\ mount' = "done"
  /\ timers' = timers \o <<Timer("isometric", 1, 0), Timer("hologram", 2, 0),
                           Timer("line_drawing", 3, 0)>>
  /\ UNCHANGED <<app, ywConfig, anomalies, imageResults, regenerations, clicks, alertOpen,
                 inflight, calls>>
  /\ UNCHANGED seqVars
  /\ UNCHANGED pureVars

\* the mount effect's catch: map initialisation throws, nothing is scheduled
mapsInitFails ==
  /\ TimerAppReady
  /\ mount = "loading"
  /\ mount' = "failed"
  /\ UNCHANGED <<app, ywConfig, anomalies, imageResults, timers, regenerations, clicks, alertOpen,
                 inflight, calls>>
  /\ UNCHANGED seqVars
  /\ UNCHANGED pureVars

\* regenerateAllImages: its button is never disabled
regenerateAllImages ==
  /\ TimerAppReady
  /\ clicks < MaxClicks
  /\ clicks' = clicks + 1
  /\ regenerations' = regenerations + 1
  /\ generateImage("isometric", regenerations + 1)
  /\ timers' = timers \o <<Timer("hologram", 1, regenerations + 1),
                           Timer("line_drawing", 2, regenerations + 1)>>
  /\ UNCHANGED <<app, ywConfig, anomalies, mount>>
  /\ UNCHANGED seqVars
  /\ UNCHANGED pureVars

\* the per-type button: disabled={result.isGenerating}
clickGenerate(type) ==
  /\ TimerAppReady
  /\ clicks < MaxClicks
  /\ ~imageResults[type].isGenerating
  /\ clicks' = clicks + 1
  /\ generateImage(type, -1)
  /\ UNCHANGED <<app, ywConfig, anomalies, timers, mount, regenerations>>
  /\ UNCHANGED seqVars
  /\ UNCHANGED pureVars

Due == {i \in 1..Len(timers) : timers[i].remaining = 0}
\* timers due at the same time run in creation order
FirstDue == CHOOSE j \in Due : \A k \in Due : j <= k
Without(seq, i) == SubSeq(seq, 1, i - 1) \o SubSeq(seq, i + 1, Len(seq))

\* a second passes with no timer due
tick ==
  /\ TimerAppReady
  /\ timers # <<>>
  /\ Due = {}
  /\ timers' = [i \in 1..Len(timers) |-> [timers[i] EXCEPT !.remaining = @ - 1]]
  /\ UNCHANGED <<app, ywConfig, anomalies, imageResults, mount, regenerations, clicks, alertOpen,
                 inflight, calls>>
  /\ UNCHANGED seqVars
  /\ UNCHANGED pureVars

\* mutant: a due callback waits until no request is outstanding
timerFiresAfterCompletion ==
  /\ TimerAppReady
  /\ Due # {}
  /\ \A t \in TimerTypes : inflight[t] = 0
  /\ generateImage(timers[FirstDue].type, timers[FirstDue].run)
  /\ timers' = Without(timers, FirstDue)
  /\ UNCHANGED <<app, ywConfig, anomalies, mount, regenerations, clicks>>
  /\ UNCHANGED seqVars
  /\ UNCHANGED pureVars

\* the earliest due setTimeout callback runs: () => generateImage(type)
timerFires ==
  /\ TimerAppReady
  /\ Due # {}
  /\ generateImage(timers[FirstDue].type, timers[FirstDue].run)
  /\ timers' = Without(timers, FirstDue)
  /\ UNCHANGED <<app, ywConfig, anomalies, mount, regenerations, clicks>>
  /\ UNCHANGED seqVars
  /\ UNCHANGED pureVars

\* mutant: the update is computed from the imageResults captured at mount
\* instead of from the previous state (prev => ...)
settleTimerStaleSnapshot(type, resp) ==
  /\ TimerAppReady
  /\ inflight[type] > 0
  /\ inflight' = [inflight EXCEPT ![type] = @ - 1]
  /\ LET res == ProcessResponseTimer(resp)
         snapshot == [t \in TimerTypes |->
                        [url |-> EmptyStr, isGenerating |-> imageResults[t].isGenerating]]
     IN IF res.ok
          THEN /\ imageResults' = [snapshot EXCEPT
                                     ![type] = [url |-> res.url, isGenerating |-> FALSE]]
               /\ alertOpen' = <<>>
          ELSE /\ imageResults' = [imageResults EXCEPT ![type].isGenerating = FALSE]
               /\ alertOpen' = AlertText(type, res.msg)
  /\ Upstream(resp)
  /\ UNCHANGED <<app, ywConfig, timers, mount, regenerations, clicks, calls>>
  /\ UNCHANGED seqVars
  /\ UNCHANGED pureVars

\* mutant: generateImage has no catch; a failure rejects its promise
settleTimerUncaught(type, resp) ==
  /\ TimerAppReady
  /\ inflight[type] > 0
  /\ inflight' = [inflight EXCEPT ![type] = @ - 1]
  /\ LET res == ProcessResponseTimer(resp)
     IN /\ imageResults' = IF res.ok
                             THEN [imageResults EXCEPT
                                     ![type] = [url |-> res.url, isGenerating |-> FALSE]]
                             ELSE imageResults
        /\ alertOpen' = <<>>
  /\ Upstream(resp)
  /\ UNCHANGED <<app, ywConfig, timers, mount, regenerations, clicks, calls>>
  /\ UNCHANGED seqVars
  /\ UNCHANGED pureVars

\* mutant: the catch block resets isGenerating of every entry
settleTimerResetsAll(type, resp) ==
  /\ TimerAppReady
  /\ inflight[type] > 0
  /\ inflight' = [inflight EXCEPT ![type] = @ - 1]
  /\ LET res == ProcessResponseTimer(resp)
     IN IF res.ok
          THEN /\ imageResults' = [imageResults EXCEPT
                                     ![type] = [url |-> res.url, isGenerating |-> FALSE]]
               /\ alertOpen' = <<>>
          ELSE /\ imageResults' = [t \in TimerTypes |->
                                     [imageResults[t] EXCEPT !.isGenerating = FALSE]]
               /\ alertOpen' = AlertText(type, res.msg)
  /\ Upstream(resp)
  /\ UNCHANGED <<app, ywConfig, timers, mount, regenerations, clicks, calls>>
  /\ UNCHANGED seqVars
  /\ UNCHANGED pureVars

\* callYouWareAPI settles one outstanding POST for `type` with `resp` (a
\* response, or the fetch rejecting) and generateImage runs on
settleTimer(type, resp) ==
  /\ TimerAppReady
  /\ inflight[type] > 0
  /\ inflight' = [inflight EXCEPT ![type] = @ - 1]
  /\ LET res == ProcessResponseTimer(resp)
     IN IF res.ok
          THEN /\ imageResults' = [imageResults EXCEPT
                                     ![type] = [url |-> res.url, isGenerating |-> FALSE]]
               /\ alertOpen' = <<>>
          ELSE /\ imageResults' = [imageResults EXCEPT ![type].isGenerating = FALSE]
               /\ alertOpen' = AlertText(type, res.msg)
  /\ Upstream(resp)
  /\ UNCHANGED <<app, ywConfig, timers, mount, regenerations, clicks, calls>>
  /\ UNCHANGED seqVars
  /\ UNCHANGED pureVars

\* the user closes the alert
dismissAlert ==
  /\ app = AppTimer
  /\ alertOpen # <<>>
  /\ alertOpen' = <<>>
  /\ UNCHANGED <<app, ywConfig, anomalies, imageResults, timers, mount, regenerations, clicks,
                 inflight, calls>>
  /\ UNCHANGED seqVars
  /\ UNCHANGED pureVars

\* =========================================================== diagnostics
\* the entry getYouWareConfig writes into ai_config when it finds no
\* line_art_generator
LineArtFallback ==
  [model |-> "nano-banana", response_format |-> "b64_json", size |-> "",
   prompt_template |-> "function",
   parts |-> <<Lit("Generate a black and white line drawing from a 45 degree angle: "),
               Var("locationContext")>>,
   literal |-> TRUE, present |-> TRUE]

\* getYouWareConfig, lines 1177-1225: globalThis.ywConfig as the call leaves
\* it (the object it returns)
getYouWareConfig(ywc) ==
  IF ywc.defined /\ ~ywc.ai_config[Key("line_art")].present
    THEN [ywc EXCEPT !.ai_config[Key("line_art")] = LineArtFallback]
    ELSE ywc

\* DeepDebugger's "run" button, rendered by both Apps: runDeepDebug calls
\* logEnvironmentInfo, which calls getYouWareConfig
logEnvironmentInfo ==
  /\ alertOpen = <<>>
  /\ ywConfig' = getYouWareConfig(ywConfig)
  /\ UNCHANGED <<app, anomalies, inflight, calls>>
  /\ UNCHANGED seqVars
  /\ UNCHANGED timerVars
  /\ UNCHANGED pureVars

\* ------------------------------------------ the procedural fallback alone
\* Math.floor(lat * 1000000) and Math.floor(lng * 1000000) of the coordinates
\* the fallback is run on
Latitudes6  == {-40689200, 0, 35681200, 40689200, 48858400, 89999999}
Longitudes6 == {-179999999, -74044500, 0, 2294500, 74044500, 139671200}
Coordinates ==
  Locations \cup {Location(ToString(a), ToString(b), "map point", a, b) :
                    a \in Latitudes6, b \in Longitudes6}

\* the inner catch of captureMapArea: generateProceduralMapImage(location)
proceduralFallback(location) ==
  /\ Len(procedural) < MaxCaptures
  /\ procedural' = Append(procedural, [location |-> location,
                                        image |-> generateProceduralMapImage(location)])
  /\ UNCHANGED exceptProcedural

NextProcedural == \E location \in Coordinates : proceduralFallback(location)


\* ------------------------------------------- processTemplateStrings alone
\* text that includes "${" without being a ${word} placeholder
MalformedPlaceholders == {"${a-b}", "${}"}

\* obj.includes('${')
IncludesDollarBrace(parts) ==
  \E i \in 1..Len(parts) : ~parts[i].lit \/ parts[i].s \in MalformedPlaceholders

\* the string as written in the manifest
RECURSIVE Text(_)
Text(parts) ==
  IF parts = <<>> THEN <<>>
  ELSE (IF Head(parts).lit THEN <<Head(parts).s>> ELSE <<"${", Head(parts).s, "}">>)
       \o Text(Tail(parts))

\* processTemplateStrings on a string field: a function when the string
\* includes "${", the string itself otherwise
processTemplateStrings(parts) ==
  [kind |-> IF IncludesDollarBrace(parts) THEN "function" ELSE "string", parts |-> parts]

\* the manifest strings the conversion is run on
TemplateFields ==
  { <<Lit("Draw the building")>>,
    <<Lit("Draw "), Var("locationContext")>>,
    <<Var("address"), Lit(" at scale "), Var("scale")>>,
    <<Lit("Focus on "), Var("address"), Lit(", again: "), Var("address")>>,
    <<Lit("Range "), Lit("${a-b}"), Lit(" of "), Var("scale")>>,
    <<Var("locationContext"), Var("address"), Var("scale")>> }

\* A variable bag: the names it has, and their values (<<>> is '').
BagNames == {"locationContext", "address", "scale"}
Bags == {[supplied |-> names, val |-> val] :
           names \in SUBSET BagNames,
           val \in [BagNames -> {<<>>, <<"Shibuya Crossing">>}]}

\* variables[key] for every name: <<>> for a name the bag lacks
BagVars(bag) == [n \in VarNames |-> IF n \in bag.supplied THEN bag.val[n] ELSE <<>>]

\* the processed field is called with `bag` (a field left a string is read)
callProcessedTemplate(parts, bag) ==
  /\ rendered' = [parts |-> parts, kind |-> processTemplateStrings(parts).kind,
                  bag |-> bag,
                  out |-> IF processTemplateStrings(parts).kind = "function"
                          THEN RenderReplace(parts, BagVars(bag))
                          ELSE Text(parts)]
  /\ UNCHANGED exceptRendered

NextTemplates ==
  \E parts \in TemplateFields, bag \in Bags : callProcessedTemplate(parts, bag)


\* ------------------------------------------------------ the page start-up
\* what #root shows: nothing yet, the React app, start's error page
NotStarted ==
  [pc |-> "notStarted", hasRoot |-> TRUE, dev |-> FALSE, console |-> <<>>, ywConfig |-> NoYwConfig, configName |-> <<>>,
   manifestFailed |-> FALSE, root |-> "empty", notice |-> "none", errorMessage |-> <<>>]

\* the globalThis.ywConfig found when the script runs: none, or one the
\* platform has put there
PresetConfigs == Manifests
\* the manifests /yw_manifest.json can hold
ManifestBodies == (Manifests \ {NoYwConfig}) \cup {YwConfig({}), YwConfig({"isometric"})}
\* fetch('/yw_manifest.json'): a rejected fetch, a non-OK status, a 200 whose
\* body is not JSON, a 200 with a manifest
ManifestOutcomes ==
  {[kind |-> "rejects", status |-> "0", body |-> NoYwConfig],
   [kind |-> "status", status |-> "404", body |-> NoYwConfig],
   [kind |-> "status", status |-> "500", body |-> NoYwConfig],
   [kind |-> "notJson", status |-> "200", body |-> NoYwConfig]}
  \cup {[kind |-> "manifest", status |-> "200", body |-> m] : m \in ManifestBodies}
\* the error each failure throws
ManifestError(outcome) ==
  IF outcome.kind = "rejects" THEN <<"Failed to fetch">>
  ELSE IF outcome.kind = "status"
    THEN <<"Failed to load ", "yw_manifest.json", ": ", outcome.status>>
  ELSE <<"Unexpected token", " in JSON">>
ManifestErrors == {ManifestError(o) : o \in {m \in ManifestOutcomes : m.kind # "manifest"}}
\* mapsLoader.importLibrary: loaded, or the error loadMapsLibraries rethrows
MapsOutcomes == {"loaded", "RefererNotAllowedMapError", "InvalidKeyMapError", "could not load"}
MapsError(outcome) ==
  IF outcome = "could not load"
    THEN <<"The Google ", "Maps", " JavaScript API could not load.">>
  ELSE <<outcome>>

\* { name: 'fallback-config', ai_config: {} }
FallbackConfig == YwConfig({})
FallbackName == <<"fallback-config">>

\* the catch of start: the error page, when #root exists
StartCatch(st, err) ==
  [st EXCEPT !.pc = "done",
             !.console = @ \o <<"Failed to initialize application">>,
             !.errorMessage = err,
             !.root = IF st.hasRoot THEN "errorPage" ELSE @,
             !.notice = IF ~st.hasRoot THEN @
                        ELSE IF \E i \in 1..Len(err) : err[i] = "yw_manifest.json" THEN "manifest"
                        ELSE IF \E i \in 1..Len(err) : err[i] = "Maps" THEN "maps"
                        ELSE "generic"]

\* the catch of initializeYwConfig: the fallback configuration, then
\* `throw error`, which start's catch receives
InitializeFails(st, err) ==
  StartCatch([st EXCEPT !.console = @ \o <<"Failed to initialize ywConfig">>,
                        !.ywConfig = FallbackConfig, !.configName = FallbackName,
                        !.manifestFailed = TRUE], err)

\* the script runs (import.meta.env.DEV is the build's): start() calls initializeYwConfig, which returns at once
\* when globalThis.ywConfig exists and fetches the manifest otherwise
start(hasRoot, dev, preset) ==
  /\ startup.pc = "notStarted"
  /\ startup' = [startup EXCEPT !.hasRoot = hasRoot, !.dev = dev, !.ywConfig = preset,
                                !.console = (IF dev THEN <<"Starting application initialization">>
                                             ELSE <<>>)
                                            \o <<IF preset.defined
                                                 THEN "ywConfig already initialized"
                                                 ELSE "Initializing ywConfig">>,
                                !.configName = IF preset.defined THEN <<"preset">> ELSE <<>>,
                                !.pc = IF preset.defined THEN "maps" ELSE "manifest"]
  /\ UNCHANGED exceptStartup

\* the manifest fetch settles and initializeYwConfig runs to its end
manifestSettles(outcome) ==
  /\ startup.pc = "manifest"
  /\ startup' = IF outcome.kind = "manifest"
                THEN [startup EXCEPT !.ywConfig = outcome.body, !.configName = <<"manifest">>,
                                     !.console = @ \o <<"ywConfig initialized successfully">>,
                                     !.pc = "maps"]
                ELSE InitializeFails(startup, ManifestError(outcome))
  /\ UNCHANGED exceptStartup

\* loadMapsLibraries settles; start renders the app or shows its error page
\* (createRoot throws when #root is missing)
mapsLibrariesSettle(outcome) ==
  /\ startup.pc = "maps"
  /\ startup' = IF outcome # "loaded" THEN StartCatch(startup, MapsError(outcome))
                ELSE IF ~startup.hasRoot
                  THEN StartCatch(startup, <<"Target container is not a DOM element.">>)
                ELSE [startup EXCEPT !.pc = "done", !.root = "app",
                                     !.console = @ \o (IF startup.dev
                                                        THEN <<"Google Maps API ready">>
                                                        ELSE <<>>)]
  /\ UNCHANGED exceptStartup

\* the reload button of the error page: location.reload()
reloadPage ==
  /\ startup.root = "errorPage"
  /\ startup' = NotStarted
  /\ UNCHANGED exceptStartup

NextStartup ==
  \/ \E hasRoot \in BOOLEAN, dev \in BOOLEAN, preset \in PresetConfigs :
       start(hasRoot, dev, preset)
  \/ \E outcome \in ManifestOutcomes : manifestSettles(outcome)
  \/ \E outcome \in MapsOutcomes : mapsLibrariesSettle(outcome)
  \/ reloadPage

\* ------------------------------------------------- the GenerationPanel
\* base64Part.length > 100
MinBase64Length == 100
\* the image prop: null, a data URI with its payload length, an http(s) URL,
\* any other string
NullImage == [kind |-> "null", id |-> "", payload |-> 0]
Images ==
  { NullImage,
    [kind |-> "base64", id |-> "A", payload |-> 4000],
    [kind |-> "base64", id |-> "B", payload |-> 4000],
    [kind |-> "base64", id |-> "short", payload |-> 20],
    [kind |-> "url", id |-> "https://cdn/img.png", payload |-> 0],
    [kind |-> "other", id |-> "blob:1", payload |-> 0] }
NoDeps == [image |-> [kind |-> "unmounted", id |-> "", payload |-> 0], imageError |-> FALSE]

\* the component before it is mounted
NoImagePanel ==
  [mounted |-> FALSE, image |-> NullImage, isLoading |-> FALSE,
   imageError |-> FALSE, imageLoaded |-> FALSE,
   img |-> "unmounted", deps |-> NoDeps, timers |-> {}, closureError |-> FALSE]

\* the <img> is rendered when the panel is not loading, has an image and is
\* not in the error state
ImgRendered(p) == p.mounted /\ ~p.isLoading /\ p.image.kind # "null" /\ ~p.imageError
\* the download button is rendered
DownloadButton(p) ==
  p.mounted /\ ~p.isLoading /\ p.image.kind # "null" /\ p.imageLoaded /\ ~p.imageError

\* the commit of a render: an <img> newly rendered, or one whose src changed,
\* starts loading; one no longer rendered is gone
Commit(old, new) ==
  [new EXCEPT !.img = IF ~ImgRendered(new) THEN "unmounted"
                      ELSE IF ImgRendered(old) /\ old.image = new.image THEN old.img
                      ELSE "pending"]

\* the effect's dependencies differ from those of its last run
EffectDue(p) == p.mounted /\ p.deps # [image |-> p.image, imageError |-> p.imageError]

\* the effect body, after the cleanup of the previous run
EffectBody(p) ==
  LET q == [p EXCEPT !.deps = [image |-> p.image, imageError |-> p.imageError],
                     !.timers = {}, !.closureError = p.imageError]
  IN IF p.image.kind = "null"
       THEN [q EXCEPT !.imageError = FALSE, !.imageLoaded = FALSE]
     ELSE IF p.image.kind = "base64"
       THEN IF p.image.payload > MinBase64Length
              THEN [q EXCEPT !.imageError = FALSE, !.imageLoaded = FALSE,
                             !.timers = {"quickLoad"}]
              ELSE [q EXCEPT !.imageError = TRUE, !.imageLoaded = FALSE]
     ELSE IF p.image.kind = "url"
       THEN [q EXCEPT !.imageError = FALSE, !.imageLoaded = FALSE,
                      !.timers = {"forceLoad", "preloadCheck"}]
     ELSE [q EXCEPT !.imageError = TRUE, !.imageLoaded = FALSE]

\* the parent renders the panel
mountPanel(image, isLoading) ==
  /\ ~imagePanel.mounted
  /\ imagePanel' = Commit(imagePanel, [imagePanel EXCEPT !.mounted = TRUE, !.image = image,
                                                         !.isLoading = isLoading])
  /\ UNCHANGED exceptImagePanel

\* the parent passes another image, or another isLoading
setImageProp(image) ==
  /\ imagePanel.mounted
  /\ image # imagePanel.image
  /\ imagePanel' = Commit(imagePanel, [imagePanel EXCEPT !.image = image])
  /\ UNCHANGED exceptImagePanel

setIsLoadingProp(isLoading) ==
  /\ imagePanel.mounted
  /\ isLoading # imagePanel.isLoading
  /\ imagePanel' = Commit(imagePanel, [imagePanel EXCEPT !.isLoading = isLoading])
  /\ UNCHANGED exceptImagePanel

\* React.useEffect(..., [image, imageError, title])
runEffect ==
  /\ EffectDue(imagePanel)
  /\ imagePanel' = Commit(imagePanel, EffectBody(imagePanel))
  /\ UNCHANGED exceptImagePanel

\* the <img> fires load
handleImageLoad ==
  /\ imagePanel.img = "pending"
  /\ imagePanel' = Commit(imagePanel, [imagePanel EXCEPT !.img = "loaded", !.imageLoaded = TRUE,
                                                         !.imageError = FALSE])
  /\ UNCHANGED exceptImagePanel

\* the <img> fires error
handleImageError ==
  /\ imagePanel.img = "pending"
  /\ imagePanel' = Commit(imagePanel, [imagePanel EXCEPT !.img = "failed", !.imageError = TRUE,
                                                         !.imageLoaded = FALSE])
  /\ UNCHANGED exceptImagePanel

\* the 50 ms timer of a data URI
quickLoadTimer ==
  /\ "quickLoad" \in imagePanel.timers
  /\ imagePanel' = Commit(imagePanel, [imagePanel EXCEPT !.timers = @ \ {"quickLoad"},
                                                         !.imageLoaded = TRUE])
  /\ UNCHANGED exceptImagePanel

\* the 8 s timer of a URL image: imageRef.current && !imageError, with the
\* imageError of the render the effect ran in
forceLoadTimer ==
  /\ "forceLoad" \in imagePanel.timers
  /\ imagePanel' = Commit(imagePanel,
       [imagePanel EXCEPT !.timers = @ \ {"forceLoad"},
                          !.imageLoaded = IF ImgRendered(imagePanel) /\ ~imagePanel.closureError
                                          THEN TRUE ELSE @])
  /\ UNCHANGED exceptImagePanel

\* the 200 ms timer of a URL image: complete && naturalWidth > 0; `cached` is
\* whether an image whose load event has not fired yet is already complete
preloadCheck(cached) ==
  /\ "preloadCheck" \in imagePanel.timers
  /\ imagePanel' = Commit(imagePanel,
       [imagePanel EXCEPT !.timers = @ \ {"preloadCheck"},
                          !.imageLoaded = IF \/ imagePanel.img = "loaded"
                                             \/ imagePanel.img = "pending" /\ cached
                                          THEN TRUE ELSE @])
  /\ UNCHANGED exceptImagePanel

NextImagePanel ==
  \/ \E image \in Images, isLoading \in BOOLEAN : mountPanel(image, isLoading)
  \/ \E image \in Images : setImageProp(image)
  \/ \E isLoading \in BOOLEAN : setIsLoadingProp(isLoading)
  \/ runEffect
  \/ handleImageLoad
  \/ handleImageError
  \/ quickLoadTimer
  \/ forceLoadTimer
  \/ \E cached \in BOOLEAN : preloadCheck(cached)

\* ------------------------------------------------------ the AI SDK loader
PackageNames == {"openai", "ai", "zod"}
\* an AISdkPackages object: for each key the module it holds ("" when the
\* key is absent), and the internal load that built the object (0: the
\* initial {})
Packages(by, from) == [by |-> by, from |-> from]
NoPackages == Packages(0, [n \in PackageNames |-> ""])
\* Object.keys(packages)
PackageKeys(pk) == {n \in PackageNames : pk.from[n] # ""}
\* the simulated packages of the YouWare production branch
SimulatedPackages(by) == Packages(by, [n \in PackageNames |-> "simulated"])

\* the module state, the promises of the internal loads, the promises of the
\* calls, the microtask queue (checkpoint: it is being drained), and what
\* the page offers
NoSdk ==
  [opened |-> FALSE, isYouWareProduction |-> FALSE,
   window |-> {}, ywSdk |-> {},
   cachedPackages |-> NoPackages, loadingPromise |-> 0,
   loads |-> <<>>, calls |-> <<>>, microtasks |-> <<>>, checkpoint |-> FALSE]

Microtask(kind, call) == [kind |-> kind, call |-> call]
PendingCalls(s) == {i \in 1..Len(s.calls) : s.calls[i].status # "settled"}

\* strategies 1 to 3 of loadPackagesInternal: the imports that were
\* fulfilled, then window.*, then window.ywSdk.*
GatherPackages(s, by, imported) ==
  Packages(by, [n \in PackageNames |->
                  IF n \in imported THEN "import"
                  ELSE IF n \in s.window THEN "window"
                  ELSE IF n \in s.ywSdk THEN "ywSdk"
                  ELSE ""])

\* mutant: the loading promise is never found
JoinsNothing(s) == FALSE
\* if (loadingPromise)
Joins(s) == s.loadingPromise # 0

\* the promise of call i is fulfilled; its caller's continuation is queued
SettleCall(s, i, pk) ==
  [s EXCEPT !.calls[i].status = "settled", !.calls[i].result = pk,
            !.microtasks = @ \o <<Microtask("caller", i)>>]

\* loadAISdkPackages() up to its first await or its return
loadAISdkPackages(s) ==
  LET i == Len(s.calls) + 1
      c == [status |-> "called", load |-> 0, started |-> FALSE, result |-> NoPackages,
            overlaps |-> PendingCalls(s)]
      l == Len(s.loads) + 1
  IN IF PackageKeys(s.cachedPackages) # {}
       THEN SettleCall([s EXCEPT !.calls = @ \o <<[c EXCEPT !.load = s.cachedPackages.by]>>],
                       i, s.cachedPackages)
     ELSE IF Joins(s)
       THEN [s EXCEPT !.calls = @ \o <<[c EXCEPT !.status = "joining",
                                                 !.load = s.loadingPromise]>>,
                      !.microtasks = @ \o <<Microtask("thenable", i)>>]
     ELSE IF s.isYouWareProduction
       THEN [s EXCEPT !.calls = @ \o <<[c EXCEPT !.status = "awaiting", !.load = l,
                                                 !.started = TRUE]>>,
                      !.loadingPromise = l,
                      !.cachedPackages = SimulatedPackages(l),
                      !.loads = @ \o <<[state |-> "fulfilled", packages |-> SimulatedPackages(l),
                                        reactions |-> <<>>]>>,
                      !.microtasks = @ \o <<Microtask("resume", i)>>]
     ELSE [s EXCEPT !.calls = @ \o <<[c EXCEPT !.status = "awaiting", !.load = l,
                                               !.started = TRUE]>>,
                    !.loadingPromise = l,
                    !.loads = @ \o <<[state |-> "pending", packages |-> NoPackages,
                                      reactions |-> <<Microtask("resume", i)>>]>>]

\* the page is opened: detectEnvironment().isYouWareProduction
openPage(isYouWareProduction) ==
  /\ ~sdk.opened
  /\ sdk' = [sdk EXCEPT !.opened = TRUE, !.isYouWareProduction = isYouWareProduction]
  /\ UNCHANGED exceptSdk

\* the platform puts a package on window or on window.ywSdk
inject(ywSdk, name) ==
  /\ sdk.opened
  /\ sdk.microtasks = <<>>
  /\ Len(sdk.calls) < MaxCalls
  /\ IF ywSdk THEN name \notin sdk.ywSdk /\ sdk' = [sdk EXCEPT !.ywSdk = @ \cup {name}]
              ELSE name \notin sdk.window /\ sdk' = [sdk EXCEPT !.window = @ \cup {name}]
  /\ UNCHANGED exceptSdk

\* a task of the page (an event handler, an effect) calls loadAISdkPackages;
\* a task runs outside the microtask checkpoint, and may call several times
\* before the microtasks it queued are run
callLoadAISdkPackages ==
  /\ sdk.opened
  /\ Len(sdk.calls) < MaxCalls
  /\ ~sdk.checkpoint
  /\ sdk' = loadAISdkPackages(sdk)
  /\ UNCHANGED exceptSdk

\* Promise.allSettled of the three imports settles and loadPackagesInternal
\* runs to its end: the reactions of its promise are queued in the order
\* they were registered
importsSettle(l, imported) ==
  /\ l \in 1..Len(sdk.loads)
  /\ sdk.loads[l].state = "pending"
  /\ sdk.checkpoint \/ sdk.microtasks = <<>>
  /\ LET pk == GatherPackages(sdk, l, imported)
     IN sdk' = [sdk EXCEPT !.cachedPackages = pk,
                           !.checkpoint = TRUE,
                           !.loads[l] = [state |-> "fulfilled", packages |-> pk,
                                         reactions |-> <<>>],
                           !.microtasks = @ \o sdk.loads[l].reactions]
  /\ UNCHANGED exceptSdk

\* the head of the microtask queue runs. resume: the call that started the
\* load goes on after its await; thenable: the promise returned by a joining
\* call adopts the loading promise; resolve: that promise is fulfilled;
\* caller: the caller's continuation, which may call the loader again
runMicrotask(again) ==
  /\ sdk.microtasks # <<>>
  /\ LET m == Head(sdk.microtasks)
         s == [sdk EXCEPT !.microtasks = Tail(@), !.checkpoint = TRUE]
         l == s.calls[m.call].load
         Drained(t) == [t EXCEPT !.checkpoint = t.microtasks # <<>>]
     IN sdk' = Drained(
               IF m.kind = "resume"
                 THEN SettleCall([s EXCEPT !.loadingPromise = 0], m.call, s.loads[l].packages)
               ELSE IF m.kind = "thenable"
                 THEN IF s.loads[l].state = "pending"
                        THEN [s EXCEPT !.calls[m.call].status = "joined",
                                       !.loads[l].reactions = @ \o <<Microtask("resolve", m.call)>>]
                        ELSE [s EXCEPT !.calls[m.call].status = "joined",
                                       !.microtasks = @ \o <<Microtask("resolve", m.call)>>]
               ELSE IF m.kind = "resolve"
                 THEN SettleCall(s, m.call, s.loads[l].packages)
               ELSE IF again /\ Len(s.calls) < MaxCalls THEN loadAISdkPackages(s) ELSE s)
  /\ UNCHANGED exceptSdk

NextSdk ==
  \/ \E isYouWareProduction \in BOOLEAN : openPage(isYouWareProduction)
  \/ \E ywSdk \in BOOLEAN, name \in PackageNames : inject(ywSdk, name)
  \/ callLoadAISdkPackages
  \/ \E l \in 1..MaxCalls, imported \in SUBSET PackageNames : importsSettle(l, imported)
  \/ \E again \in BOOLEAN : runMicrotask(again)

\* ------------------------------------------------- the Deep Debug store
Levels == {"info", "success", "warning", "error"}
\* messages, as token sequences, that the Deep Debug System and its fetch
\* wrapper pass to addLog
LogMessages ==
  { <<"Starting initial system tests...">>,
    <<"ywConfig not found - some features may be limited">>,
    <<"Found 3 ", "AI", " generators">>,
    <<"API", " connectivity test passed">>,
    <<"API", " connectivity test ", "failed">> }
MaximumCallStack == <<"Maximum call stack size exceeded">>

\* level === 'error' ? 'error' : level === 'warning' ? 'warn' :
\* level === 'success' ? 'log' : 'info'
ConsoleMethod(level) ==
  IF level = "error" THEN "error"
  ELSE IF level = "warning" THEN "warn"
  ELSE IF level = "success" THEN "log" ELSE "info"

\* The console method as initializeDebugSystem replaced it: the level it
\* passes on to onLog, "none" when it passes nothing on (console.info is
\* not replaced).
Intercepted(method, text) ==
  IF method = "log"
    THEN IF Contains(text, "[NanoBanana]") \/ Contains(text, "AI") \/ Contains(text, "YouWare")
           THEN "info" ELSE "none"
  ELSE IF method = "error"
    THEN IF Contains(text, "API") \/ Contains(text, "Error") \/ Contains(text, "Failed")
           THEN "error" ELSE "none"
  ELSE IF method = "warn" THEN "warning"
  ELSE "none"

\* addLog: the entries it appends (its own and those of the addLog calls its
\* console call leads to), and whether the call ended in a RangeError
\* because the nesting went past the engine's call stack.
RECURSIVE addLog(_, _, _, _)
addLog(level, message, intercepted, depth) ==
  IF depth > MaxStack THEN [logs |-> <<>>, threw |-> TRUE]
  ELSE
    LET newLog == [level |-> level, message |-> message]
        text == <<"[Deep Debug] ">> \o message
        onLog == IF intercepted THEN Intercepted(ConsoleMethod(level), text) ELSE "none"
    IN IF onLog = "none" THEN [logs |-> <<newLog>>, threw |-> FALSE]
       ELSE LET nested == addLog(onLog, text, intercepted, depth + 1)
            IN [logs |-> <<newLog>> \o nested.logs, threw |-> nested.threw]

NoDebugStore == [intercepted |-> FALSE, logs |-> <<>>, calls |-> 0,
                 last |-> [level |-> "none", message |-> <<>>, threw |-> FALSE]]

\* DeepDebugSystem's mount effect: initializeDebugSystem({onLog: addLog})
\* replaces console.log, console.error and console.warn, then logs
\* 'Deep Debug System initialized'
initializeDebugSystem ==
  /\ ~debugStore.intercepted
  /\ LET r == addLog("success", <<"Deep Debug System initialized">>, TRUE, 1)
     IN debugStore' = [debugStore EXCEPT !.intercepted = TRUE, !.logs = @ \o r.logs]
  /\ UNCHANGED exceptDebugStore

\* the Deep Debug System calls addLog(level, message)
callAddLog(level, message) ==
  /\ debugStore.calls < MaxLogCalls
  /\ LET r == addLog(level, message, debugStore.intercepted, 1)
     IN debugStore' = [debugStore EXCEPT
                         !.logs = @ \o r.logs,
                         !.calls = @ + 1,
                         !.last = [level |-> level, message |-> message, threw |-> r.threw]]
  /\ UNCHANGED exceptDebugStore

\* clearLogs: setLogs([]) and console.log('[Deep Debug] Logs cleared')
clearLogs ==
  /\ debugStore.logs # <<>>
  /\ debugStore' = [debugStore EXCEPT !.logs = <<>>]
  /\ UNCHANGED exceptDebugStore

NextDebugStore ==
  \/ initializeDebugSystem
  \/ \E level \in Levels, message \in LogMessages : callAddLog(level, message)
  \/ clearLogs

\* ------------------------------------------------- the fetch monitors
\* A fetch implementation is the native fetch (<<>>) under the wrappers
\* installed over it, outermost last.
NativeFetch == <<>>
IllegalInvocation == <<"Illegal invocation">>
Urls == {"https://api.youware.com/public/v1/ai/images/generations",
         "https://maps.googleapis.com/maps/api/staticmap",
         "/yw_manifest.json"}
\* urlString.includes('youware') || includes('/ai/') || includes('nano-banana')
IsAiUrl(url) == url = "https://api.youware.com/public/v1/ai/images/generations"

Settled(resolved, response, error, logs) ==
  [resolved |-> resolved, response |-> response, error |-> error, logs |-> logs]
\* what the platform's fetch does with the upstream's answer
Unmonitored(resp) ==
  IF resp.rejected THEN Settled(FALSE, RespReject, FailedToFetch, <<>>)
                   ELSE Settled(TRUE, resp, <<>>, <<>>)

\* Calling the implementation f with `this` being the window (or undefined)
\* or some other object: the native fetch rejects with a TypeError when its
\* receiver is not the global object.
\*  - "debug": monitorNetworkRequests' wrapper calls originalFetch(...args)
\*    and, for AI urls, passes the request and its outcome to onLog, which is
\*    the store's addLog; it returns the response or rethrows the error
\*    unless onLog throws (inside the try, and again in the catch);
\*  - "monitor": createFetchInterceptor's wrapper calls
\*    this.originalFetch(input, init) with the NetworkMonitor as receiver,
\*    logs, returns the response or rethrows the error.
RECURSIVE Invoke(_, _, _, _)
Invoke(f, onWindow, url, resp) ==
  IF f = NativeFetch
    THEN IF onWindow THEN Unmonitored(resp)
         ELSE Settled(FALSE, RespReject, IllegalInvocation, <<>>)
  ELSE
    LET layer == f[Len(f)]
        originalFetch == SubSeq(f, 1, Len(f) - 1)
    IN IF layer = "debug"
         THEN LET r == Invoke(originalFetch, TRUE, url, resp)
                  level == IF r.resolved /\ IsOk(r.response) THEN "success" ELSE "error"
                  message == IF r.resolved
                               THEN <<"API", " Response: ", r.response.status>>
                               ELSE <<"API", " Request ", "Failed">>
              IN IF ~IsAiUrl(url) THEN r
                 ELSE IF addLog(level, message, TRUE, 1).threw
                   THEN Settled(FALSE, RespReject, MaximumCallStack,
                                <<"info">> \o r.logs \o <<level>>)
                 ELSE [r EXCEPT !.logs = <<"info">> \o @ \o <<level>>]
         ELSE LET r == Invoke(originalFetch, FALSE, url, resp)
              IN [r EXCEPT !.logs = @ \o
                    <<IF ~r.resolved THEN "error"
                      ELSE IF r.response.status \in {"401", "500"} THEN "warn"
                      ELSE "info">>]

NoFetch == [issued |-> FALSE, url |-> "", answer |-> RespReject,
            result |-> Settled(FALSE, RespReject, <<>>, <<>>)]
NoMonitors == [fetch |-> NativeFetch, constructed |-> FALSE,
               originalFetch |-> NativeFetch, last |-> NoFetch]

\* initializeDebugSystem -> monitorNetworkRequests: window.fetch is wrapped
\* (again at every run of DeepDebugSystem's effect)
monitorNetworkRequests ==
  /\ Len(net.fetch) < MaxWrappers
  /\ net' = [net EXCEPT !.fetch = Append(@, "debug")]
  /\ UNCHANGED exceptNet

\* new NetworkMonitor(addLog): the constructor keeps window.fetch
createNetworkMonitor ==
  /\ ~net.constructed
  /\ net' = [net EXCEPT !.constructed = TRUE, !.originalFetch = net.fetch]
  /\ UNCHANGED exceptNet

\* window.fetch = this.createFetchInterceptor()
startMonitoring ==
  /\ net.constructed
  /\ net' = [net EXCEPT !.fetch = Append(net.originalFetch, "monitor")]
  /\ UNCHANGED exceptNet

\* window.fetch = this.originalFetch
stopMonitoring ==
  /\ net.constructed
  /\ net' = [net EXCEPT !.fetch = net.originalFetch]
  /\ UNCHANGED exceptNet

\* the page calls fetch(url, init) and the upstream answers with resp
pageFetch(url, resp) ==
  /\ net' = [net EXCEPT !.last = [issued |-> TRUE, url |-> url, answer |-> resp,
                                  result |-> Invoke(net.fetch, TRUE, url, resp)]]
  /\ UNCHANGED exceptNet

NextMonitors ==
  \/ monitorNetworkRequests
  \/ createNetworkMonitor
  \/ startMonitoring
  \/ stopMonitoring
  \/ \E url \in Urls, resp \in Responses : pageFetch(url, resp)


\* ------------------------------------------------ the diagnostic probes
NoProbe == [name |-> "none", settled |-> "pending", result |-> <<>>]

\* ---- YouWareApiValidator.validateApiKey
\* the key getApiKeyFromSources finds: none (or one of at most 10
\* characters), one that fails validateKeyFormat, a well-formed one
ApiKeys == {"none", "malformed", "well-formed"}
FetchOutcomes == {"ok", "rejects"}
\* the geocoding test call: the status field of its JSON body, a body that
\* is not JSON, a body that is the JSON null, or a rejected fetch
AuthorizationAnswers ==
  {"OK", "REQUEST_DENIED referer", "REQUEST_DENIED", "OVER_QUERY_LIMIT",
   "ZERO_RESULTS", "not JSON", "null", "rejects"}
\* window.google.maps: absent, or the status its Geocoder calls back with, or
\* a Geocoder whose constructor throws
GeocoderOutcomes == {"not loaded", "OK", "REQUEST_DENIED", "ERROR", "constructor throws"}

ValidationResult(key, isYouWare) ==
  [threw |-> FALSE, isValid |-> FALSE, apiKey |-> key, errors |-> <<>>,
   warnings |-> <<>>, recommendations |-> <<>>,
   platformSpecific |-> [isYouWare |-> isYouWare, httpsRequired |-> FALSE,
                         corsIssues |-> FALSE],
   testResults |-> [keyFormatValid |-> FALSE, domainAuthorized |-> FALSE,
                    apiEnabled |-> FALSE, quotaAvailable |-> FALSE,
                    networkReachable |-> FALSE]]

\* performPlatformSpecificChecks: the CORS fetch is inside try/catch
performPlatformSpecificChecks(r, https, cors) ==
  LET r1 == [r EXCEPT !.platformSpecific.httpsRequired = https]
      r2 == IF ~https
              THEN [r1 EXCEPT !.warnings = Append(@, "YouWare requires HTTPS for Google Maps API")]
              ELSE r1
  IN IF ~r.platformSpecific.isYouWare THEN r1
     ELSE IF cors = "rejects"
       THEN [r2 EXCEPT !.platformSpecific.corsIssues = TRUE,
                       !.warnings = Append(@, "CORS issues detected on YouWare platform")]
       ELSE r2

\* mutant: the connectivity fetch is not wrapped in try/catch
testNetworkConnectivityUncaught(outcome) ==
  [threw |-> outcome # "ok", value |-> outcome = "ok"]

\* testNetworkConnectivity: true when the fetch resolves, false from the catch
testNetworkConnectivity(outcome) ==
  [threw |-> FALSE, value |-> outcome = "ok"]

\* testApiKeyAuthorization: everything is inside one try/catch
testApiKeyAuthorization(r, answer) ==
  IF answer = "rejects"
    THEN [r EXCEPT !.errors = Append(@, "Authorization test failed: Failed to fetch")]
  ELSE IF answer = "not JSON"
    THEN [r EXCEPT !.errors = Append(@, "Authorization test failed: Unexpected token in JSON")]
  ELSE IF answer = "null"
    THEN [r EXCEPT !.errors = Append(@, "Authorization test failed: Cannot read properties of null")]
  ELSE IF answer = "OK"
    THEN [r EXCEPT !.testResults.domainAuthorized = TRUE,
                   !.testResults.apiEnabled = TRUE,
                   !.testResults.quotaAvailable = TRUE]
  ELSE IF answer = "REQUEST_DENIED"
    THEN [r EXCEPT !.errors = Append(@, "API key authorization failed: Request denied")]
  ELSE IF answer = "REQUEST_DENIED referer"
    THEN [r EXCEPT !.errors = @ \o <<"API key authorization failed: referer not allowed",
                                     "Domain restriction issue: Add your domain to API key restrictions">>]
  ELSE IF answer = "OVER_QUERY_LIMIT"
    THEN [r EXCEPT !.testResults.domainAuthorized = TRUE,
                   !.testResults.apiEnabled = TRUE,
                   !.warnings = Append(@, "API quota exceeded")]
  ELSE r

\* testWithGoogleMapsApi: the Geocoder test, inside try/catch
testWithGoogleMapsApi(r, geocoder) ==
  IF geocoder = "OK"
    THEN [r EXCEPT !.testResults.apiEnabled = TRUE, !.testResults.domainAuthorized = TRUE]
  ELSE IF geocoder = "REQUEST_DENIED"
    THEN [r EXCEPT !.errors = Append(@, "Google Maps API: Request denied - check API key and domain restrictions"),
                   !.warnings = Append(@, "Google Maps API test failed: Request denied")]
  ELSE IF geocoder = "constructor throws"
    THEN [r EXCEPT !.warnings = Append(@, "Google Maps API test failed: Geocoder is not a constructor")]
  ELSE [r EXCEPT !.warnings = Append(@, "Google Maps API geocoder status: ERROR")]

\* generateRecommendations of the validator: the groups of recommendations
\* pushed
ValidatorRecommendations(r) ==
  IF r.errors = <<>> /\ r.warnings = <<>>
    THEN <<"API key validation passed - configuration looks good">>
  ELSE (IF ~r.testResults.keyFormatValid THEN <<"key format">> ELSE <<>>)
    \o (IF ~r.testResults.domainAuthorized THEN <<"referrer restrictions">> ELSE <<>>)
    \o (IF ~r.testResults.apiEnabled THEN <<"enable APIs">> ELSE <<>>)
    \o (IF ~r.testResults.networkReachable THEN <<"connectivity">> ELSE <<>>)
    \o (IF r.platformSpecific.isYouWare THEN <<"YouWare configuration">> ELSE <<>>)
    \o (IF r.platformSpecific.isYouWare /\ r.platformSpecific.corsIssues THEN <<"CORS settings">> ELSE <<>>)
    \o (IF ~r.testResults.quotaAvailable THEN <<"quota">> ELSE <<>>)

determineOverallValidity(r) ==
  /\ r.testResults.keyFormatValid /\ r.errors = <<>>
  /\ r.testResults.networkReachable
  /\ (r.testResults.domainAuthorized \/ r.testResults.apiEnabled)

\* validateApiKey, steps 1-7; a step that throws rejects the promise and the
\* steps after it do not run
validateApiKey(key, isYouWare, https, cors, connectivity, answer, geocoder) ==
  LET r0 == ValidationResult(key, isYouWare)
      r2 == IF key = "well-formed"
              THEN [r0 EXCEPT !.testResults.keyFormatValid = TRUE]
              ELSE [r0 EXCEPT !.errors = Append(@, "API key format is invalid")]
      r3 == performPlatformSpecificChecks(r2, https, cors)
      reach == testNetworkConnectivity(connectivity)
      r4 == IF reach.threw THEN [r3 EXCEPT !.threw = TRUE]
            ELSE IF reach.value THEN [r3 EXCEPT !.testResults.networkReachable = TRUE]
            ELSE [r3 EXCEPT !.errors = Append(@, "Cannot reach Google Maps API servers")]
      r5 == IF r4.testResults.keyFormatValid /\ r4.testResults.networkReachable
              THEN testApiKeyAuthorization(r4, answer) ELSE r4
      r6 == IF geocoder # "not loaded" THEN testWithGoogleMapsApi(r5, geocoder) ELSE r5
      r7 == [r6 EXCEPT !.recommendations = ValidatorRecommendations(r6)]
  IN IF key = "none"
       THEN [r0 EXCEPT !.errors = <<"No API key found in any source">>,
                       !.recommendations = <<"Set VITE_GOOGLE_MAPS_API_KEY in environment variables",
                                             "For YouWare: Try alternative configuration methods">>]
     ELSE IF r4.threw THEN r4
     ELSE [r7 EXCEPT !.isValid = determineOverallValidity(r7)]

Settle(name, r) ==
  [name |-> name, settled |-> IF r.threw THEN "rejected" ELSE "resolved", result |-> r]

runValidateApiKey(key, isYouWare, https, cors, connectivity, answer, geocoder) ==
  /\ probe.settled = "pending"
  /\ probe' = Settle("validateApiKey",
                     validateApiKey(key, isYouWare, https, cors, connectivity, answer, geocoder))
  /\ UNCHANGED exceptProbe

\* ---- YouWarePlatformTester.runPlatformTests
Platforms == {"YouWare", "Local", "Other"}
\* the CSP checks that throw
CspBlockings == {{}, {"inline script"}, {"eval", "Function constructor"}}
\* what a probe's inputs are drawn from: the platform, the checks that throw
\* or fail in each group, and the outcomes of the test calls
PlatformChecks ==
  [platform : Platforms,
   cspBlocked : CspBlockings,
   corsRejected : {0, 2, 3},          \* of the 4 origins fetched
   portsBlocked : {0, 3},             \* of the 4 ports fetched
   scriptsBlocked : {0, 2},           \* of the 3 script loading methods
   storageAvailable : {2, 4},         \* of the 4 storage methods
   jsRestricted : {0, 1},             \* of the 8 JavaScript features
   mapsFetch : FetchOutcomes,
   apiScriptLoadable : BOOLEAN,
   dynamicScript : {"runs", "blocked", "throws"},
   iframe : {"ok", "throws"}]

\* testCSPConstraints: each check in its own try/catch
testCSPConstraints(blocked) ==
  [restricted |-> blocked # {},
   level |-> IF blocked \cap {"eval", "Function constructor"} # {} THEN "strict"
             ELSE IF blocked # {} THEN "basic" ELSE "none"]

\* testGoogleMapsSpecific: four tests, each in its own try/catch
testGoogleMapsSpecific(in) ==
  [googleMapsReachable |-> in.mapsFetch = "ok",
   apiScriptLoadable |-> in.apiScriptLoadable,
   dynamicScriptInjection |-> in.dynamicScript = "runs",
   iframeEmbedding |-> in.iframe = "ok"]

\* generateRecommendations of the tester: the recommendations pushed
PlatformRecommendations(platform, constraints, apiSpecific) ==
     (IF constraints.csp.restricted
        THEN IF constraints.csp.level = "strict" THEN <<"strict CSP">> ELSE <<"CSP allowlist">>
        ELSE <<>>)
  \o (IF constraints.cors.restricted THEN <<"CORS">> ELSE <<>>)
  \o (IF constraints.scriptLoading.restricted THEN <<"script loading">> ELSE <<>>)
  \o (IF ~apiSpecific.googleMapsReachable THEN <<"cannot reach Google Maps">> ELSE <<>>)
  \o (IF ~apiSpecific.apiScriptLoadable THEN <<"script loading failed">> ELSE <<>>)
  \o (IF ~apiSpecific.dynamicScriptInjection THEN <<"dynamic injection blocked">> ELSE <<>>)
  \o (IF platform = "YouWare" THEN <<"YouWare injection methods", "YouWare meta tag">> ELSE <<>>)

\* runPlatformTests: the seven tests under Promise.all, then the
\* recommendations
runPlatformTests(in) ==
  LET constraints ==
        [csp |-> testCSPConstraints(in.cspBlocked),
         cors |-> [restricted |-> 2 * in.corsRejected > 4],
         networking |-> [restricted |-> in.portsBlocked > 0],
         scriptLoading |-> [restricted |-> in.scriptsBlocked > 0],
         storage |-> [restricted |-> in.storageAvailable < 4],
         javascript |-> [restricted |-> in.jsRestricted > 0]]
      apiSpecific == testGoogleMapsSpecific(in)
  IN [threw |-> FALSE, platform |-> in.platform, constraints |-> constraints,
      apiSpecific |-> apiSpecific,
      recommendations |-> PlatformRecommendations(in.platform, constraints, apiSpecific)]

\* the model follows one probe run of a page
runRunPlatformTests(in) ==
  /\ probe.settled = "pending"
  /\ probe' = Settle("runPlatformTests", runPlatformTests(in))
  /\ UNCHANGED exceptProbe

NextProbes ==
  \/ \E key \in ApiKeys, isYouWare \in BOOLEAN, https \in BOOLEAN,
        cors \in FetchOutcomes, connectivity \in FetchOutcomes,
        answer \in AuthorizationAnswers, geocoder \in GeocoderOutcomes :
       runValidateApiKey(key, isYouWare, https, cors, connectivity, answer, geocoder)
  \/ \E in \in PlatformChecks : runRunPlatformTests(in)

\* ------------------------------------------------------- the DebugPanel
\* localStorage.getItem('debugMode'): "null" when the key is absent
StoredDebugModes == {"null", "true", "false"}
\* window.location.search
Searches == {"", "?debug=true", "?debug=false"}

\* effect: the effect with dependency [isVisible] is due to run;
\* shortcut: what the last Ctrl+Shift+D switched the panel to, "none" once the
\* user has done something else to the panel since
DebugPanelState(mounted, isVisible, isOpen, isRunning, debugMode, search, effect, shortcut) ==
  [mounted |-> mounted, isVisible |-> isVisible, isOpen |-> isOpen,
   isRunning |-> isRunning, debugInfo |-> "null", debugMode |-> debugMode,
   search |-> search, effect |-> effect, shortcut |-> shortcut]
NotMounted == DebugPanelState(FALSE, FALSE, FALSE, FALSE, "null", "", FALSE, "none")

\* isDebugEnabled: false only when localStorage holds 'false'
isDebugEnabled(debugMode) == debugMode # "false"

\* the page loads: useState(isDebugEnabled), then the mount effects
loadDebugPanel(debugMode, search) ==
  /\ ~debugPanel.mounted
  /\ debugPanel' = DebugPanelState(TRUE, isDebugEnabled(debugMode), FALSE, FALSE,
                                   debugMode, search, TRUE, "none")
  /\ UNCHANGED exceptDebugPanel

\* location.reload(): localStorage and the URL are kept
reloadDebugPanel ==
  /\ debugPanel.mounted
  /\ debugPanel' = DebugPanelState(TRUE, isDebugEnabled(debugPanel.debugMode), FALSE,
                                   FALSE, debugPanel.debugMode, debugPanel.search,
                                   TRUE, "none")
  /\ UNCHANGED exceptDebugPanel

\* checkDebugParam as the effect runs it: it runs on mount and after every
\* render that changed isVisible
checkDebugParam ==
  /\ debugPanel.mounted /\ debugPanel.effect
  /\ debugPanel' =
       IF debugPanel.search = "?debug=true" /\ ~debugPanel.isVisible
         THEN [debugPanel EXCEPT !.isVisible = TRUE]
         ELSE [debugPanel EXCEPT !.effect = FALSE]
  /\ UNCHANGED exceptDebugPanel

\* toggleDebugMode
toggleDebugMode(p) ==
  [p EXCEPT !.isVisible = ~p.isVisible,
            !.debugMode = IF ~p.isVisible THEN "true" ELSE "false",
            !.isOpen = IF p.isVisible THEN FALSE ELSE @,
            !.effect = TRUE]

\* handleKeyDown with e.ctrlKey && e.shiftKey && e.key === 'D'; pending
\* effects are flushed before the next event is handled
keyDownCtrlShiftD ==
  /\ debugPanel.mounted /\ ~debugPanel.effect
  /\ debugPanel' = [toggleDebugMode(debugPanel) EXCEPT
                      !.shortcut = IF debugPanel.isVisible THEN "hide" ELSE "show"]
  /\ UNCHANGED exceptDebugPanel

\* a click on the eye icon (shown or hidden panel)
clickEye ==
  /\ debugPanel.mounted /\ ~debugPanel.effect
  /\ debugPanel' = [toggleDebugMode(debugPanel) EXCEPT !.shortcut = "none"]
  /\ UNCHANGED exceptDebugPanel

\* the bug button and the panel's close button: setIsOpen
setIsOpen(open) ==
  /\ debugPanel.mounted /\ ~debugPanel.effect /\ debugPanel.isVisible
  /\ open = ~debugPanel.isOpen
  /\ debugPanel' = [debugPanel EXCEPT !.isOpen = open]
  /\ UNCHANGED exceptDebugPanel

\* runDebugTests: setIsRunning(true), and setDebugInfo(info) with
\* setIsRunning(false) once its tests have settled
runDebugTests ==
  /\ debugPanel.mounted /\ ~debugPanel.effect
  /\ debugPanel.isVisible /\ debugPanel.isOpen
  /\ debugPanel' = IF debugPanel.isRunning
                     THEN [debugPanel EXCEPT !.isRunning = FALSE, !.debugInfo = "info"]
                     ELSE [debugPanel EXCEPT !.isRunning = TRUE]
  /\ UNCHANGED exceptDebugPanel

\* the guide's console commands: localStorage.setItem('debugMode', ...) and
\* localStorage.removeItem('debugMode')
setStoredDebugMode(debugMode) ==
  /\ debugPanel.mounted /\ ~debugPanel.effect
  /\ debugMode # debugPanel.debugMode
  /\ debugPanel' = [debugPanel EXCEPT !.debugMode = debugMode]
  /\ UNCHANGED exceptDebugPanel

\* history navigation changes the URL: the popstate listener runs
\* checkDebugParam
popstate(search) ==
  /\ debugPanel.mounted /\ ~debugPanel.effect
  /\ debugPanel' =
       IF search = "?debug=true" /\ ~debugPanel.isVisible
         THEN [debugPanel EXCEPT !.search = search, !.isVisible = TRUE,
                                 !.effect = TRUE, !.shortcut = "none"]
         ELSE [debugPanel EXCEPT !.search = search, !.shortcut = "none"]
  /\ UNCHANGED exceptDebugPanel

NextDebugPanel ==
  \/ \E debugMode \in StoredDebugModes, search \in Searches : loadDebugPanel(debugMode, search)
  \/ reloadDebugPanel
  \/ checkDebugParam
  \/ keyDownCtrlShiftD
  \/ clickEye
  \/ \E open \in BOOLEAN : setIsOpen(open)
  \/ runDebugTests
  \/ \E debugMode \in StoredDebugModes : setStoredDebugMode(debugMode)
  \/ \E search \in Searches : popstate(search)

\* ------------------------------------------------------- the place search
\* what the user can have in the input box
Texts == {"", " ", "tokyo", "tokyo ", "osaka"}
\* text.trim()
Trim(text) == IF text = " " THEN "" ELSE IF text = "tokyo " THEN "tokyo" ELSE text
NoQuery == "<none>"
NoTimer == "<none>"
NoSuggestions == [for |-> NoQuery, source |-> "none"]

\* services: which lookup the init effect has set up ("none" before it ran:
\* no AutocompleteSuggestion, no AutocompleteService, no Geocoder);
\* lookups: the calls in flight, each with the query it was issued for (two
\* outstanding calls for one query and stage count once);
\* latest: the query issued last, "" once the input has been cleared since
NoSearch == [query |-> "", debounce |-> NoTimer, services |-> "none",
             lookups |-> {}, suggestions |-> NoSuggestions,
             isSearching |-> FALSE, latest |-> NoQuery]

LookupInFlight(q, stage) == [q |-> q, stage |-> stage]

\* fallbackToStatic: a synchronous setSuggestions from popularPlaces
fallbackToStatic(p, q) ==
  [p EXCEPT !.suggestions = [for |-> q, source |-> "static"]]

\* fallbackToGeocoding
fallbackToGeocoding(p, q) ==
  IF p.services = "none"
    THEN [fallbackToStatic(p, q) EXCEPT !.isSearching = FALSE]
    ELSE [p EXCEPT !.lookups = @ \cup {LookupInFlight(q, "geocode")}]

\* searchPlaces up to its first await or callback registration
searchPlaces(p, text) ==
  LET q == Trim(text)
      p1 == [p EXCEPT !.isSearching = TRUE, !.latest = q]
  IN IF q = "" THEN [p EXCEPT !.suggestions = NoSuggestions]
     ELSE IF p.services = "suggestion"
       THEN [p1 EXCEPT !.lookups = @ \cup {LookupInFlight(q, "suggestion")}]
     ELSE IF p.services = "autocomplete"
       THEN [p1 EXCEPT !.lookups = @ \cup {LookupInFlight(q, "autocomplete")}]
     ELSE fallbackToGeocoding(p1, q)

\* the init effect, once google.maps is there
initServices(api) ==
  /\ mapSearch.services = "none"
  /\ mapSearch' = [mapSearch EXCEPT !.services = api]
  /\ UNCHANGED exceptMapSearch

\* handleInputChange
handleInputChange(v) ==
  /\ v # mapSearch.query
  /\ mapSearch' = IF Trim(v) # ""
                 THEN [mapSearch EXCEPT !.query = v, !.debounce = v]
                 ELSE [mapSearch EXCEPT !.query = v, !.debounce = NoTimer,
                                     !.suggestions = NoSuggestions,
                                     !.isSearching = FALSE, !.latest = ""]
  /\ UNCHANGED exceptMapSearch

\* the debounce timer fires: searchPlaces(v)
debounceFires ==
  /\ mapSearch.debounce # NoTimer
  /\ mapSearch' = searchPlaces([mapSearch EXCEPT !.debounce = NoTimer], mapSearch.debounce)
  /\ UNCHANGED exceptMapSearch

\* the mapSearch button: disabled while isSearching
clickSearch ==
  /\ ~mapSearch.isSearching
  /\ Trim(mapSearch.query) # ""
  /\ mapSearch' = searchPlaces(mapSearch, mapSearch.query)
  /\ UNCHANGED exceptMapSearch

\* a lookup in flight answers: getSuggestions resolves or rejects,
\* getPlacePredictions or geocode call back with OK or another status
lookupSettles(call, ok) ==
  /\ call \in mapSearch.lookups
  /\ LET p == [mapSearch EXCEPT !.lookups = @ \ {call}]
         shown == [p EXCEPT !.suggestions = [for |-> call.q, source |-> call.stage],
                            !.isSearching = FALSE]
     IN mapSearch' =
          IF ok THEN shown
          ELSE IF call.stage = "geocode"
            THEN [fallbackToStatic(p, call.q) EXCEPT !.isSearching = FALSE]
          ELSE IF call.stage = "autocomplete"
            THEN [fallbackToGeocoding(p, call.q) EXCEPT !.isSearching = FALSE]
          ELSE fallbackToGeocoding(p, call.q)
  /\ UNCHANGED exceptMapSearch

NextSearch ==
  \/ \E api \in {"suggestion", "autocomplete"} : initServices(api)
  \/ \E v \in Texts : handleInputChange(v)
  \/ debounceFires
  \/ clickSearch
  \/ \E call \in mapSearch.lookups, ok \in BOOLEAN : lookupSettles(call, ok)

\* ================================================================= page
\* the App after construction
InitApp ==
  /\ app \in {AppSeq, AppTimer}
  /\ ywConfig \in Manifests
  /\ selectedLocation = defaultLocation
  /\ mapZoom = 18
  /\ mapImage = Null
  /\ generatedImages = [t \in SeqTypes |-> Null]
  /\ isCapturing = FALSE
  /\ isGenerating = FALSE
  /\ currentStep = "null"
  /\ runLocation = NoLocation
  /\ consoleError = <<>>
  /\ imageResults = [t \in TimerTypes |-> [url |-> EmptyStr, isGenerating |-> FALSE]]
  /\ timers = <<>>
  /\ mount = "loading"
  /\ regenerations = 0
  /\ clicks = 0
  /\ alertOpen = <<>>
  /\ inflight = [t \in AllTypes |-> 0]
  /\ anomalies = 0
  /\ calls = [r \in Runs |-> <<>>]
  /\ procedural = <<>>
  /\ rendered = NotRendered

\* a component that a specification does not run
NotRunning == <<>>
\* the App alone
Init ==
  /\ InitApp
  /\ net = NotRunning
  /\ probe = NotRunning
  /\ debugPanel = NotRunning
  /\ mapSearch = NotRunning
  /\ debugStore = NotRunning
  /\ startup = NotRunning
  /\ imagePanel = NotRunning
  /\ sdk = NotRunning

\* the page has just loaded, with the components that are exercised on
\* their own; which App it runs plays no part here
InitPure ==
  /\ InitApp
  /\ app = AppSeq
  /\ ywConfig = NoYwConfig
  /\ net = NoMonitors
  /\ probe = NoProbe
  /\ debugPanel = NotMounted
  /\ mapSearch = NoSearch
  /\ debugStore = NoDebugStore
  /\ startup = NotStarted
  /\ imagePanel = NoImagePanel
  /\ sdk = NoSdk

Next ==
  \/ \E location \in Locations : handleLocationSelect(location)
  \/ handleGenerate
  \/ \E outcome \in StaticMapOutcomes : captureSettles(outcome)
  \/ \E resp \in Responses : settleSeq(resp)
  \/ mapsLoaded
  \/ mapsInitFails
  \/ regenerateAllImages
  \/ \E type \in TimerTypes : clickGenerate(type)
  \/ tick
  \/ timerFires
  \/ \E type \in TimerTypes, resp \in Responses : settleTimer(type, resp)
  \/ dismissAlert
  \/ logEnvironmentInfo

Spec == Init /\ [][Next]_vars

\* handleGenerate's App alone, with every network call settling in the end:
\* the static-map capture and the awaited generation request
NextSeq ==
  \/ \E location \in Locations : handleLocationSelect(location)
  \/ handleGenerate
  \/ \E outcome \in StaticMapOutcomes : captureSettles(outcome)
  \/ \E resp \in Responses : settleSeq(resp)
  \/ logEnvironmentInfo
NetworkSettles ==
  /\ WF_vars(\E outcome \in StaticMapOutcomes : captureSettles(outcome))
  /\ WF_vars(\E resp \in Responses : settleSeq(resp))
InitSeq == Init /\ app = AppSeq
SpecSeqLive == InitSeq /\ [][NextSeq]_vars /\ NetworkSettles

\* the functions exercised on their own
SpecProcedural == InitPure /\ [][NextProcedural]_vars
SpecTemplates == InitPure /\ [][NextTemplates]_vars
SpecMonitors == InitPure /\ [][NextMonitors]_vars
SpecProbes == InitPure /\ [][NextProbes]_vars
SpecDebugPanel == InitPure /\ [][NextDebugPanel]_vars
SpecSearch == InitPure /\ [][NextSearch]_vars
SpecDebugStore == InitPure /\ [][NextDebugStore]_vars
SpecStartup == InitPure /\ [][NextStartup]_vars
SpecImagePanel == InitPure /\ [][NextImagePanel]_vars
SpecSdk == InitPure /\ [][NextSdk]_vars


\* =============================================================== claims
\* ---- what a step did
\* a generation call for type u was made in this step
CalledNow(u) ==
  \E r \in Runs : \E i \in (Len(calls[r]) + 1)..Len(calls'[r]) : calls'[r][i].type = u

\* generation code of type u ran in this step
ActedSeq(u) ==
  /\ app = AppSeq
  /\ \/ CalledNow(u)
     \/ currentStep = u /\ \E resp \in Responses : settleSeq(resp)

ActedTimer(u) ==
  /\ u \in TimerTypes
  /\ \/ clickGenerate(u)
     \/ \E resp \in Responses : settleTimer(u, resp)
     \/ u = "isometric" /\ regenerateAllImages
     \/ timerFires /\ timers[FirstDue].type = u

Acted(u) == ActedSeq(u) \/ ActedTimer(u)

\* the slot, generating flag and outstanding requests of type u are untouched
Untouched(u) ==
  /\ u \in SeqTypes => generatedImages'[u] = generatedImages[u]
  /\ u \in TimerTypes => imageResults'[u] = imageResults[u]
  /\ inflight'[u] = inflight[u]

\* C1: a step in which generations run (starting, succeeding or failing)
\* changes the slot and generating flag only of the types whose generation
\* ran; every other type keeps its slot value and its outstanding requests.
C1_OnlyOwnSlot ==
  [][(\E t \in AllTypes : Acted(t)) =>
       \A u \in AllTypes : ~Acted(u) => Untouched(u)]_vars

\* the hologram request failed with 401 while the isometric image is kept
\* and the line-drawing request is outstanding
C1_Witness ==
  \/ /\ app = AppSeq
     /\ generatedImages["cad"].tag = "string"
     /\ generatedImages["hologram"] = Null
     /\ Contains(consoleError, "API Error - Authentication failed: ")
     /\ inflight["lineArt"] = 1
  \/ /\ app = AppTimer
     /\ imageResults["isometric"].url.tag = "string"
     /\ imageResults["isometric"].url # EmptyStr
     /\ alertOpen # <<>> /\ alertOpen[1] = "hologram"
     /\ inflight["line_drawing"] = 1

\* ---- runs
RunStarted(r) ==
  IF app = AppSeq THEN r = 0 /\ runLocation # NoLocation
  ELSE IF r = 0 THEN mount = "done" ELSE regenerations >= r

\* every step of run r has been reached
RunFinished(r) ==
  /\ RunStarted(r)
  /\ IF app = AppSeq THEN ~isGenerating
     ELSE \A i \in 1..Len(timers) : timers[i].run # r

RunOrder == IF app = AppSeq THEN [i \in 1..Len(steps) |-> steps[i].key] ELSE TimerOrder
TypesCalled(r) == [i \in 1..Len(calls[r]) |-> calls[r][i].type]

\* C2: when a run has finished, a generation call was made for each of the
\* three image types, whatever happened to the earlier ones.
C2_AllStepsAttempted ==
  \A r \in Runs : RunFinished(r) => TypesCalled(r) = RunOrder

\* a finished run whose isometric step failed and whose later steps were
\* still issued
C2_Witness ==
  /\ RunFinished(0)
  /\ Len(calls[0]) = 3
  /\ calls[0][2].sent /\ calls[0][3].sent
  /\ \/ app = AppSeq /\ generatedImages["cad"] = Null
     \/ app = AppTimer /\ ~calls[0][1].sent


\* ---- failures
StartedNowTimer(t) ==
  /\ t \in TimerTypes
  /\ \/ clickGenerate(t)
     \/ t = "isometric" /\ regenerateAllImages
     \/ timerFires /\ timers[FirstDue].type = t

SettledNowSeq(t, resp)   == currentStep = t /\ settleSeq(resp)
SettledNowTimer(t, resp) == t \in TimerTypes /\ settleTimer(t, resp)

\* a generation step of type t failed in this step
FailedNow(t) ==
  \/ /\ app = AppSeq
     /\ \E i \in (Len(calls[0]) + 1)..Len(calls'[0]) :
          calls'[0][i].type = t /\ ~calls'[0][i].sent
  \/ \E resp \in Responses : SettledNowSeq(t, resp) /\ ~ProcessResponseSeq(resp).ok
  \/ StartedNowTimer(t) /\ ~StartTimer(ywConfig, t).ok
  \/ \E resp \in Responses : SettledNowTimer(t, resp) /\ ~ProcessResponseTimer(resp).ok

\* the slot of type t holds no image (null; the timer-driven App starts at '')
SlotBlank(t) ==
  IF app = AppSeq THEN t \in SeqTypes => generatedImages[t] = Null
  ELSE t \in TimerTypes => imageResults[t].url \in {Null, EmptyStr}

\* C3: whenever a generation step of a type fails, that type's slot is
\* null once the step has finished.
C3_FailedSlotIsNull ==
  [][\A t \in AllTypes : FailedNow(t) => SlotBlank(t)']_vars

\* C4: for each image type at most one generation request is in flight.
C4_AtMostOneInFlight == \A t \in AllTypes : inflight[t] <= 1

\* ---- requests of a run
RECURSIVE SentTypes(_)
SentTypes(log) ==
  IF log = <<>> THEN <<>>
  ELSE (IF Head(log).sent THEN <<Head(log).type>> ELSE <<>>) \o SentTypes(Tail(log))

OrderIndex(t) == CHOOSE k \in 1..Len(RunOrder) : RunOrder[k] = t
InRunOrder(ts) == \A i, j \in 1..Len(ts) : i < j => OrderIndex(ts[i]) < OrderIndex(ts[j])

\* the call for type t gets as far as its fetch
CanStart(t) ==
  IF app = AppSeq THEN StartSeq(ywConfig, t, runLocation).ok
  ELSE StartTimer(ywConfig, t).ok

\* C5 as claimed: a finished run has issued exactly one request per image
\* type, in the order isometric, hologram, line-drawing.
C5_OncePerTypeInOrder ==
  \A r \in Runs : RunFinished(r) => SentTypes(calls[r]) = RunOrder

\* C5 as amended: the requests of a run are issued in the order isometric,
\* hologram, line-drawing, at most one per type, and a finished run has
\* issued one for exactly the types whose call does not throw before the
\* fetch (configuration found and template callable).
C5_AtMostOnceInOrder ==
  \A r \in Runs :
    /\ InRunOrder(SentTypes(calls[r]))
    /\ RunFinished(r) =>
         \A k \in 1..Len(RunOrder) :
           CanStart(RunOrder[k]) <=>
             \E i \in 1..Len(SentTypes(calls[r])) : SentTypes(calls[r])[i] = RunOrder[k]

\* a finished run that issued requests for some types and none for others
C5_Witness ==
  /\ RunFinished(0)
  /\ Len(SentTypes(calls[0])) \in {1, 2}

\* C6: a due timer callback starts its generation whether or not requests
\* of other types are outstanding: starts are driven by the delays alone.
C6_StartsNotGatedByCompletion ==
  (TimerAppReady /\ Due # {}) => ENABLED timerFires

\* the automatic run has issued the hologram request while its isometric
\* request is still outstanding
C6_Witness ==
  /\ app = AppTimer
  /\ clicks = 0
  /\ SentTypes(calls[0]) = <<"isometric", "hologram">>
  /\ inflight["isometric"] = 1
  /\ inflight["hologram"] = 1

\* ---- the per-type state machine
Generating(t) ==
  IF app = AppSeq THEN currentStep = t ELSE t \in TimerTypes /\ imageResults[t].isGenerating

GeneratingIffInFlight == \A t \in TypesOf(app) : Generating(t) <=> inflight[t] > 0

SlotOf(t) == IF app = AppSeq THEN generatedImages[t] ELSE imageResults[t].url

\* C7: a type is generating exactly while a request of it is in flight, and
\* a settled request leaves succeeded(url) or failed(null).
C7_StateMachine ==
  [][ /\ GeneratingIffInFlight'
      /\ \A t \in TypesOf(app), resp \in Responses :
           /\ SettledNowSeq(t, resp) =>
                SlotOf(t)' = IF ProcessResponseSeq(resp).ok
                             THEN ProcessResponseSeq(resp).url ELSE Null
           /\ SettledNowTimer(t, resp) =>
                IF ProcessResponseTimer(resp).ok
                THEN SlotOf(t)' = ProcessResponseTimer(resp).url
                ELSE SlotBlank(t)' ]_vars

\* ---- response shapes
NeitherField(resp) ==
  /\ IsOk(resp) /\ resp.json /\ Len(resp.data) > 0
  /\ resp.data[1].b64_json = Undefined
  /\ resp.data[1].url = Undefined

\* the failure message the generation call surfaced in this step
Surfaced == IF app = AppSeq THEN consoleError ELSE alertOpen
InvalidFormat == IF app = AppSeq THEN InvalidFormatSeq ELSE InvalidFormatTimer

\* C8: a 2xx answer whose data[0] has neither b64_json nor url makes the
\* call fail with an invalid-response-format failure, and no empty or
\* undefined value is stored as the image.
C8_NeitherFieldFails ==
  [][\A t \in TypesOf(app), resp \in Responses :
       ((SettledNowSeq(t, resp) \/ SettledNowTimer(t, resp)) /\ NeitherField(resp)) =>
         /\ Contains(Surfaced', InvalidFormat)
         /\ SlotOf(t)' \notin {Undefined, EmptyStr}]_vars

\* C9: the failure message surfaced for a non-2xx answer contains the
\* upstream's error message.
C9_UpstreamMessageSurfaced ==
  [][\A t \in TypesOf(app), resp \in Responses :
       ((SettledNowSeq(t, resp) \/ SettledNowTimer(t, resp)) /\ HasUpstreamMessage(resp)) =>
         Contains(Surfaced', resp.message)]_vars

\* ---- configuration lookup
\* the hardcoded table of the running App (handleGenerate's App has none)
HardcodedTable == IF app = AppTimer THEN manualConfigs ELSE [k \in Keys |-> NoConfig]

ValidPrompt(prompt) ==
  /\ prompt # <<>>
  /\ ~Contains(prompt, "undefined")
  /\ ~Contains(prompt, "${")
  /\ Contains(prompt, selectedPlace.address)

\* C10: a generation call for a type whose `${type}_generator` entry is
\* missing from the manifest while the hardcoded table has the type still
\* resolves a config, renders a valid prompt and issues its request.
C10_FallbackTableResolves ==
  \A r \in Runs : \A i \in 1..Len(calls[r]) :
    LET e == calls[r][i]
    IN (~Lookup(ywConfig, Key(e.type)).present /\ HardcodedTable[Key(e.type)].present)
         => e.sent /\ ValidPrompt(e.prompt)

\* with no ywConfig at all, the automatic run issued all three requests
C10_Witness ==
  /\ app = AppTimer
  /\ ywConfig = NoYwConfig
  /\ SentTypes(calls[0]) = TimerOrder

\* ---- missing configuration
\* the config the running App resolves for type t
ConfigFor(t) ==
  IF app = AppSeq THEN ResolveConfigSeq(ywConfig, t) ELSE ResolveConfigTimer(ywConfig, t)

\* what a generation call for type t does before its fetch
StartOf(t) ==
  IF app = AppSeq THEN StartSeq(ywConfig, t, runLocation) ELSE StartTimer(ywConfig, t)

ConfigNotFound(msg) ==
  \/ Contains(msg, " generator configuration not found")
  \/ Contains(msg, "AI config not found: ")

\* C11: a generation call for a type with no resolvable configuration
\* issues no HTTP request and throws a configuration-not-found error.
C11_NoConfigFailsBeforeRequest ==
  \A r \in Runs : \A i \in 1..Len(calls[r]) :
    LET e == calls[r][i]
    IN ~ConfigFor(e.type).present =>
         /\ ~e.sent
         /\ ~StartOf(e.type).ok
         /\ ConfigNotFound(StartOf(e.type).msg)

\* with no ywConfig, handleGenerate's run made its three calls, none of
\* which issued a request, and logged the configuration-not-found error
C11_Witness ==
  /\ app = AppSeq
  /\ ywConfig = NoYwConfig
  /\ runLocation # NoLocation /\ ~isGenerating
  /\ Len(calls[0]) = 3
  /\ \A i \in 1..3 : ~calls[0][i].sent
  /\ ConfigNotFound(consoleError)
  /\ \A t \in AllTypes : inflight[t] = 0

\* ---- the orchestrator boundary
\* the alert() now shown reports a failure of type t
AlertedFor(t) == alertOpen # <<>> /\ alertOpen[1] = t

C13_MissingConfigAlerts ==
  [][\A t \in TypesOf(app) :
       (CalledNow(t) /\ ~ConfigFor(t).present) => alertOpen' # <<>>]_vars

\* ---- interleaved completions
\* what the running App makes of the response to a request
ResultOf(resp) ==
  IF app = AppSeq THEN ProcessResponseSeq(resp) ELSE ProcessResponseTimer(resp)

IsDataUri(v) ==
  /\ v.tag = "string"
  /\ Len(v.val) = 3
  /\ v.val[1] = "data:" /\ v.val[3] = ";base64,"

SameDraws(a, b) ==
  /\ a.canvas.seed = b.canvas.seed
  /\ a.canvas.features = b.canvas.features
  /\ a.canvas.shapes = b.canvas.shapes

C17_FiveToTwelveShapes ==
  /\ \A i \in 1..Len(procedural) :
       LET canvas == procedural[i].image.canvas
       IN /\ canvas.features \in 5..12
          /\ Len(canvas.shapes) = canvas.features
  /\ FeatureCount(0) = 5
  /\ FeatureCount(PrngModulus - 1) = 12

\* both ends of the range are drawn: an image with 5 shapes (seed 0) and one
\* with 12
C17_Witness ==
  /\ Len(procedural) = 2
  /\ procedural[1].image.canvas.seed = 0
  /\ Len(procedural[1].image.canvas.shapes) = 5
  /\ Len(procedural[2].image.canvas.shapes) = 12

\* ---- the global configuration
\* C18: once the page has loaded, no operation changes globalThis.ywConfig.
C18_ConfigReadOnly == [][ywConfig' = ywConfig]_vars

\* ---- template conversion
HasPlaceholder(parts) == \E i \in 1..Len(parts) : ~parts[i].lit
NamesOf(parts) == {parts[i].s : i \in {j \in 1..Len(parts) : ~parts[j].lit}}

\* the string with every ${name} replaced by the bag's value for name
RECURSIVE Substituted(_, _)
Substituted(parts, bag) ==
  IF parts = <<>> THEN <<>>
  ELSE (IF Head(parts).lit THEN <<Head(parts).s>> ELSE bag.val[Head(parts).s])
       \o Substituted(Tail(parts), bag)

\* C19: a manifest string with a ${name} placeholder has become a function,
\* and calling it with a bag that has every name of the string returns the
\* string with each ${name} replaced by the bag's value.
C19_PlaceholdersReplaced ==
  (/\ rendered.kind # "none"
   /\ HasPlaceholder(rendered.parts)
   /\ NamesOf(rendered.parts) \subseteq rendered.bag.supplied)
  => /\ rendered.kind = "function"
     /\ rendered.out = Substituted(rendered.parts, rendered.bag)

\* ---- the stored image
HasImageData(resp) == IsOk(resp) /\ resp.json /\ Len(resp.data) > 0

\* C20: when a 2xx response settles whose data[0] has b64_json, the slot
\* holds 'data:image/png;base64,' followed by it, a url also present or
\* not; the url is stored when b64_json is absent.
C20_Base64Preferred ==
  [][\A t \in TypesOf(app), resp \in Responses :
       ((SettledNowSeq(t, resp) \/ SettledNowTimer(t, resp)) /\ HasImageData(resp)) =>
         LET imageData == resp.data[1]
         IN /\ imageData.b64_json # Undefined =>
                 SlotOf(t)' = Str(<<"data:image/png;base64,">> \o imageData.b64_json.val)
            /\ (imageData.b64_json = Undefined /\ imageData.url # Undefined) =>
                 SlotOf(t)' = imageData.url]_vars

\* a response with both fields has settled and the slot holds the data URI
\* of its b64_json
C20_Witness ==
  \/ /\ app = AppSeq
     /\ generatedImages["cad"] = Str(<<"data:image/png;base64,", "R0lGODlh">>)
     /\ currentStep = "hologram"
  \/ /\ app = AppTimer
     /\ imageResults["hologram"].url = Str(<<"data:image/png;base64,", "R0lGODlh">>)
     /\ imageResults["isometric"].isGenerating

\* ---- the fetch monitors
\* the same response or the same error, whatever was logged on the way
SameSettlement(a, b) ==
  /\ a.resolved = b.resolved
  /\ a.response = b.response
  /\ a.error = b.error

\* C21: with the network monitors installed, every fetch the page issues
\* resolves with the same response, or rejects with the same error, as the
\* un-monitored fetch would.
C21_MonitoredFetchEquivalent ==
  net.last.issued => SameSettlement(net.last.result, Unmonitored(net.last.answer))

\* ---- the diagnostic probes
IsStructuredResult(r) ==
  \/ /\ probe.name = "validateApiKey"
     /\ r.isValid \in BOOLEAN
     /\ \A k \in DOMAIN r.testResults : r.testResults[k] \in BOOLEAN
     /\ r.isValid => r.errors = <<>>
  \/ /\ probe.name = "runPlatformTests"
     /\ r.platform \in Platforms
     /\ \A k \in DOMAIN r.constraints : r.constraints[k].restricted \in BOOLEAN
     /\ \A k \in DOMAIN r.apiSpecific : r.apiSpecific[k] \in BOOLEAN

\* C22: each diagnostic probe returns a structured result object and never
\* throws or rejects, whatever the outcome of the browser checks and test
\* HTTP calls it performs.
C22_ProbesReturnStructuredResult ==
  probe.settled # "pending" =>
    /\ probe.settled = "resolved"
    /\ IsStructuredResult(probe.result)

\* the validator found a well-formed key on the YouWare platform and every
\* test call it made failed
C22_Witness ==
  /\ probe.name = "validateApiKey"
  /\ probe.settled = "resolved"
  /\ probe.result.testResults.keyFormatValid
  /\ ~probe.result.testResults.networkReachable
  /\ probe.result.platformSpecific.corsIssues
  /\ Len(probe.result.warnings) >= 2
  /\ ~probe.result.isValid

\* ---- the debug panel
\* C23: pressing Ctrl+Shift+D switches debug-mode visibility in every state
\* of the page: a panel that was shown becomes and stays hidden, one that was
\* hidden becomes and stays shown (until the user acts on the panel again).
C23_ShortcutSwitchesVisibility ==
  (debugPanel.mounted /\ ~debugPanel.effect) =>
     /\ debugPanel.shortcut = "hide" => ~debugPanel.isVisible
     /\ debugPanel.shortcut = "show" => debugPanel.isVisible

\* ---- a location selected during a run
\* C24: every non-null image held in a slot was generated for the currently
\* selected location: no step stores the result of a request that was issued
\* for another location than the one selected now.
C24_NoStaleResultStored ==
  [][\A t \in SeqTypes :
       (generatedImages'[t] # generatedImages[t] /\ generatedImages'[t] # Null)
         => runLocation = selectedLocation']_vars

\* ---- the end of a run
\* C25: every generation run returns to idle: provided every network call
\* eventually settles, after a run starts isGenerating eventually becomes
\* false and currentStep null, whether its steps succeeded or failed.
C25_RunReturnsToIdle ==
  (app = AppSeq /\ isGenerating) ~> (~isGenerating /\ currentStep = "null")

\* a run has ended with one image stored and one step failed, and the
\* Generate button is enabled again
C25_Witness ==
  /\ app = AppSeq
  /\ ~isGenerating /\ ~isCapturing /\ currentStep = "null"
  /\ Len(calls[0]) = Len(steps)
  /\ generatedImages["cad"] # Null
  /\ generatedImages["hologram"] = Null
  /\ consoleError # <<>>

\* ------------------------------------------------------- the place search
\* C26: the suggestion list always belongs to the most recent input: a
\* response to an earlier query that arrives after a later query was issued,
\* or after the input was cleared, never replaces the suggestions.
C26_SuggestionsOfLatestInput ==
  [][(mapSearch'.suggestions # mapSearch.suggestions /\ mapSearch'.suggestions.for # NoQuery)
       => mapSearch'.suggestions.for = mapSearch'.latest]_vars

\* ---- the Deep Debug store
\* C27: recording one debug log entry terminates and adds exactly one entry:
\* with the console interception installed, an addLog call of any level
\* never triggers further addLog calls through the intercepted console.
C27_AddLogAddsOneEntry ==
  [][(debugStore'.calls = debugStore.calls + 1 /\ debugStore.intercepted)
       => /\ Len(debugStore'.logs) = Len(debugStore.logs) + 1
          /\ ~debugStore'.last.threw]_vars

\* ---- the page start-up
\* C28: when loading the manifest fails (the fetch rejects, or answers with a
\* non-OK status), the global configuration is the fallback with an empty
\* ai_config and start-up goes on to render the app once the Maps
\* libraries load.
C28_ManifestFailureFallsBackAndRenders ==
  startup.manifestFailed
    => /\ startup.ywConfig = FallbackConfig
       /\ \/ startup.pc = "maps"
          \/ startup.pc = "done" /\ startup.errorMessage \notin ManifestErrors

\* ---- the GenerationPanel
\* C29: once an image has failed to load, the panel stays in the error
\* state, without a download button, as long as the image prop keeps its
\* value.
C29_ErrorStateUntilImageChanges ==
  [][(imagePanel.imageError /\ imagePanel'.image = imagePanel.image)
       => (imagePanel'.imageError /\ ~DownloadButton(imagePanel'))]_vars

\* ---- the AI SDK loader
\* calls i and j overlap in time: one was pending when the other was made
Overlap(i, j) == i \in sdk.calls[j].overlaps \/ j \in sdk.calls[i].overlaps
\* C30: calls to loadAISdkPackages that overlap in time trigger at most one
\* internal package load, and all of them resolve to the same package set.
C30_OverlappingCallsShareOneLoad ==
  \A i, j \in 1..Len(sdk.calls) :
    Overlap(i, j)
      => /\ ~(sdk.calls[i].started /\ sdk.calls[j].started)
         /\ sdk.calls[i].load = sdk.calls[j].load
         /\ (sdk.calls[i].status = "settled" /\ sdk.calls[j].status = "settled")
              => sdk.calls[i].result = sdk.calls[j].result
\* three overlapping calls have settled with the packages of one load that
\* imported one package and found another on window
C30_Witness ==
  /\ Len(sdk.calls) = MaxCalls
  /\ \A i \in 1..MaxCalls : sdk.calls[i].status = "settled"
  /\ Overlap(1, 2) /\ Overlap(2, 3) /\ Overlap(1, 3)
  /\ sdk.calls[1].started
  /\ sdk.calls[3].result.from["openai"] = "import"
  /\ sdk.calls[3].result.from["ai"] = "window"


====
